---- MODULE Spec2Model ----
(***************************************************************************)
(* FinSage data collection: the incremental load + MERGE upsert engine.    *)
(*                                                                         *)
(*   src/src/utils/snowflake_client.py     SnowflakeClient                 *)
(*   src/src/data_loaders/base_loader.py   BaseDataLoader                  *)
(*   src/src/data_loaders/stock_loader.py  StockPriceLoader                *)
(*   src/src/data_loaders/news_loader.py   NewsLoader                      *)
(*                                                                         *)
(* A DataFrame is [columns, rows]: the ordered column names and one        *)
(* function (column name -> cell) per row.  A warehouse table is a         *)
(* sequence of rows keyed by the upper-case column names of its schema.    *)
(* Text cells hold strings, every other cell holds an integer; the missing *)
(* value is NULL in a text column and NaN in a numeric one.                *)
(***************************************************************************)
EXTENDS Integers, Sequences, FiniteSets, TLC

\* ---------------------------------------------------------------- bounds
MaxRuns == 2        \* loader runs in one behaviour
MaxBatch == 2       \* records the external source returns for one request
MaxTarget == 1      \* rows already in the table, in the specification of the engine alone

Tickers == {"AAPL", "MSFT"}
\* trading days (prices)
Dates == {1, 2}

\* publication instants (news); the first two fall on one calendar day
Instants == {1, 2, 3}

\* ---------------------------------------------------------------- cells
NULL == "NULL"
NaN == -1000

TextColumns ==
  {"TICKER", "SOURCE", "TITLE", "DESCRIPTION", "CONTENT", "AUTHOR", "SOURCE_NAME", "URL",
   "FISCAL_QUARTER", "CIK", "COMPANY_NAME", "FORM_TYPE", "ACCESSION_NUMBER",
   "PRIMARY_DOCUMENT", "FISCAL_PERIOD", "FILING_URL"}

\* str.upper() over the column names the loaders use
UpperOf ==
  [ date |-> "DATE", open |-> "OPEN", high |-> "HIGH", low |-> "LOW", close |-> "CLOSE",
    volume |-> "VOLUME", dividends |-> "DIVIDENDS", stock_splits |-> "STOCK_SPLITS",
    source |-> "SOURCE", ticker |-> "TICKER", ingested_at |-> "INGESTED_AT",
    data_quality_score |-> "DATA_QUALITY_SCORE",
    article_id |-> "ARTICLE_ID", title |-> "TITLE", description |-> "DESCRIPTION",
    content |-> "CONTENT", author |-> "AUTHOR", source_name |-> "SOURCE_NAME",
    url |-> "URL", published_at |-> "PUBLISHED_AT",
    fiscal_quarter |-> "FISCAL_QUARTER", market_cap |-> "MARKET_CAP", revenue |-> "REVENUE",
    net_income |-> "NET_INCOME", eps |-> "EPS", pe_ratio |-> "PE_RATIO",
    profit_margin |-> "PROFIT_MARGIN", debt_to_equity |-> "DEBT_TO_EQUITY",
    total_assets |-> "TOTAL_ASSETS", total_liabilities |-> "TOTAL_LIABILITIES",
    cik |-> "CIK", company_name |-> "COMPANY_NAME", form_type |-> "FORM_TYPE",
    filing_date |-> "FILING_DATE", report_date |-> "REPORT_DATE",
    accession_number |-> "ACCESSION_NUMBER", primary_document |-> "PRIMARY_DOCUMENT",
    filing_text |-> "FILING_TEXT", fiscal_year |-> "FISCAL_YEAR",
    fiscal_period |-> "FISCAL_PERIOD", filing_url |-> "FILING_URL" ]

Upper(c) == IF c \in DOMAIN UpperOf THEN UpperOf[c] ELSE c

\* the missing value of a column, by the column's type
NullOf(c) == IF Upper(c) \in TextColumns THEN NULL ELSE NaN

IsNull(c, v) == v = NullOf(c)

Range(s) == {s[i] : i \in 1..Len(s)}

\* pandas comparisons: any comparison with NaN is False
Lt(a, b) == a # NaN /\ b # NaN /\ a < b
Gt(a, b) == Lt(b, a)

\* ---------------------------------------------------------------- DataFrame
EmptyFrame == [columns |-> <<>>, rows |-> <<>>]

IsEmpty(d) == Len(d.rows) = 0

\* df[c] = v   (one value for every row; a new column is appended)
SetColumn(d, c, v) ==
  [ columns |-> IF c \in Range(d.columns) THEN d.columns ELSE Append(d.columns, c),
    rows |-> [i \in 1..Len(d.rows) |->
                [k \in DOMAIN d.rows[i] \cup {c} |-> IF k = c THEN v ELSE d.rows[i][k]]] ]

\* (df[c] ...).any()
AnyRow(d, P(_)) == \E i \in 1..Len(d.rows) : P(d.rows[i])

\* df.columns = df.columns.str.upper()
UpperColumns(d) ==
  [ columns |-> [i \in 1..Len(d.columns) |-> Upper(d.columns[i])],
    rows |-> [i \in 1..Len(d.rows) |->
                [k \in {Upper(c) : c \in DOMAIN d.rows[i]} |->
                   d.rows[i][CHOOSE c \in DOMAIN d.rows[i] : Upper(c) = k]]] ]

\* ---------------------------------------------------------------- warehouse
StockTable == "RAW.RAW_STOCK_PRICES"
NewsTable == "RAW.RAW_NEWS"
TableNames == {StockTable, NewsTable}

\* the columns of each target table, as the loaders' INSERT lists name them
TableColumns ==
  [ t \in TableNames |->
      IF t = StockTable
      THEN {"TICKER", "DATE", "OPEN", "HIGH", "LOW", "CLOSE", "VOLUME", "DIVIDENDS",
            "STOCK_SPLITS", "SOURCE", "INGESTED_AT", "DATA_QUALITY_SCORE"}
      ELSE {"ARTICLE_ID", "TICKER", "TITLE", "DESCRIPTION", "CONTENT", "AUTHOR",
            "SOURCE_NAME", "URL", "PUBLISHED_AT", "INGESTED_AT", "DATA_QUALITY_SCORE"} ]

\* target_table.split('.')[-1]
LastPart == [t \in TableNames |-> IF t = StockTable THEN "RAW_STOCK_PRICES" ELSE "RAW_NEWS"]

\* f"TEMP_{target_table.split('.')[-1]}_STAGING"
StagingName(t) ==
  IF LastPart[t] = "RAW_STOCK_PRICES" THEN "TEMP_RAW_STOCK_PRICES_STAGING"
  ELSE "TEMP_RAW_NEWS_STAGING"

StagingNames == {StagingName(t) : t \in TableNames}

None == NaN

\* MAX(...): NULL over no values
MaxOf(vals) == IF vals = {} THEN NaN ELSE CHOOSE v \in vals : \A w \in vals : w <= v

GetLastLoadedDateAnyTicker(tbls, table, t, date_column) ==
  LET last_date == MaxOf({tbls[table][i][date_column] : i \in 1..Len(tbls[table])} \ {NaN})
  IN  IF last_date # NaN THEN last_date ELSE None

\* SELECT MAX(date_column) FROM table WHERE TICKER = ticker, MAX skipping NULLs;
\* None when the result is NULL
GetLastLoadedDate(tbls, table, t, date_column) ==
  LET hits == {i \in 1..Len(tbls[table]) : tbls[table][i]["TICKER"] = t}
      last_date == MaxOf({tbls[table][i][date_column] : i \in hits} \ {NaN})
  IN  IF last_date # NaN THEN last_date ELSE None

\* ON target.k1 = source.k1 AND ...   (an equality with a NULL side is not true)
KeyMatch(t, s, match_keys) ==
  \A k \in Range(match_keys) :
     /\ ~IsNull(k, t[Upper(k)])
     /\ ~IsNull(k, s[Upper(k)])
     /\ t[Upper(k)] = s[Upper(k)]

MatchSet(tgt, src, match_keys, i) ==
  {j \in 1..Len(src) : KeyMatch(tgt[i], src[j], match_keys)}

\* a target row that joins several source rows: the MERGE is nondeterministic
Nondeterministic(tgt, src, match_keys) ==
  \E i \in 1..Len(tgt) : Cardinality(MatchSet(tgt, src, match_keys, i)) > 1

\* for each target row the source row that updates it (0: none matches)
Picks(tgt, src, match_keys) ==
  {p \in [1..Len(tgt) -> 0..Len(src)] :
     \A i \in 1..Len(tgt) :
        IF MatchSet(tgt, src, match_keys, i) = {} THEN p[i] = 0
        ELSE p[i] \in MatchSet(tgt, src, match_keys, i)}

MergeReplace(tgt, src, match_keys, update_columns, insert_cols, p) ==
  [j \in 1..Len(src) |->
     [c \in DOMAIN src[j] |->
        IF c \in {Upper(k) : k \in Range(insert_cols)} THEN src[j][c] ELSE NullOf(c)]]

MergeAppends(tgt, src, match_keys, update_columns, insert_cols, p) ==
  tgt \o [j \in 1..Len(src) |->
            [c \in DOMAIN src[j] |->
               IF c \in {Upper(k) : k \in Range(insert_cols)} THEN src[j][c] ELSE NullOf(c)]]

\* MERGE INTO target USING source ON ... WHEN MATCHED THEN UPDATE SET ...
\* WHEN NOT MATCHED THEN INSERT (...) VALUES (...)
MergeInto(tgt, src, match_keys, update_columns, insert_cols, p) ==
  LET upd == {Upper(c) : c \in Range(update_columns)}
      ins == {Upper(c) : c \in Range(insert_cols)}
      updated == [i \in 1..Len(tgt) |->
                    IF p[i] = 0 THEN tgt[i]
                    ELSE [c \in DOMAIN tgt[i] |->
                            IF c \in upd THEN src[p[i]][c] ELSE tgt[i][c]]]
      unmatched(s) == \A i \in 1..Len(tgt) : ~KeyMatch(tgt[i], s, match_keys)
      fresh == SelectSeq(src, unmatched)
      inserted == [j \in 1..Len(fresh) |->
                     [c \in DOMAIN fresh[j] |->
                        IF c \in ins THEN fresh[j][c] ELSE NullOf(c)]]
  IN  updated \o inserted

StagedRowsKept(d, table) == <<>>

\* write_pandas(df, staging_table, auto_create_table=False, overwrite=True):
\* the staging rows are the frame's rows, a column the frame lacks is NULL
StagedRows(d, table) ==
  [i \in 1..Len(d.rows) |->
     [c \in TableColumns[table] |->
        IF c \in DOMAIN d.rows[i] THEN d.rows[i][c] ELSE NullOf(c)]]

\* ---------------------------------------------------------------- state
VARIABLES
  tables,      \* table name -> rows of the persisted table
  staging,     \* staging table name -> [exists, rows], temporary tables of the session
  pc,          \* position of the current BaseDataLoader.load call
  loader,      \* "stocks" or "news": the loader that runs
  ticker,      \* load's argument
  last_date,   \* fetch_data's local: the watermark it resolved
  raw,         \* what the external source answered
  df,          \* load's DataFrame
  score,       \* load's local
  call,        \* merge_data's arguments, as _load_to_snowflake passed them
  calls,       \* merge_data invocations on this DataFrame
  clock,       \* pd.Timestamp.now(): one tick per run
  nextId,      \* source of fresh uuid4 values
  error,       \* the exception load's except clause caught, "" when none
  before,      \* the tables when the current call started
  prev,        \* the last call that returned True: for whom, on which answer, rows then
  pipeline,    \* run_pipeline's frame: position, arguments, loop index, results
  concurrent,  \* two runs in two sessions: their temporary tables and positions
  download     \* download_filings_for_ticker: its frame, the S3 bucket, the documents table

vars ==
  <<tables, staging, pc, loader, ticker, last_date, raw, df, score, call, calls,
    clock, nextId, error, before, prev, pipeline, concurrent, download>>

\* what a single load call leaves alone
others == <<pipeline, concurrent, download>>

NoCall ==
  [target_table |-> "", staging_table |-> "", match_keys |-> <<>>, update_columns |-> <<>>]

NoPrev == [ticker |-> "", raw |-> <<>>, rows |-> 0]

\* no run_pipeline call, no concurrent runs, no filing download
NoPipeline == [at |-> "idle"]
NoConcurrent == [at |-> "idle"]
NoDownload == [at |-> "off"]

Returning == pc \in {"done", "failed"}
InMerge == pc \in {"merge_data", "staging_created", "staging_written"}

\* ---------------------------------------------------------------- StockPriceLoader
\* open/high/low/close shapes: two consistent bars and one with high < low
BarOk == [Open |-> 1, High |-> 2, Low |-> 1, Close |-> 2]
BarOk2 == [Open |-> 2, High |-> 2, Low |-> 1, Close |-> 1]
BarBad == [Open |-> 1, High |-> 1, Low |-> 2, Close |-> 1]

\* what the price source answers with in the loader's specification
Bars == {BarOk, BarBad}

\* one row of yf.Ticker(ticker).history(...).reset_index()
HistRow(d, b) ==
  [Date |-> d, Open |-> b.Open, High |-> b.High, Low |-> b.Low, Close |-> b.Close,
   Volume |-> 100, Dividends |-> 0, StockSplits |-> 0]

\* history(start=last_date) / history(period="2y"): the bars from `start` on
\* (start is inclusive), in index order; two bars may fall on one day
HistoryOf(bars, start) ==
  {h \in UNION {[1..n -> {HistRow(d, b) : d \in Dates, b \in bars}] : n \in 0..MaxBatch} :
     /\ \A i \in 1..Len(h) : start = None \/ h[i].Date >= start
     /\ \A i \in 1..Len(h) - 1 : h[i].Date <= h[i + 1].Date}

History(start) == HistoryOf(Bars, start)

StockColumns ==
  <<"date", "open", "high", "low", "close", "volume", "dividends", "stock_splits", "source">>

\* fetch_data after the request: rename, tag the source, select, format the date
StockFrame(hist) ==
  IF Len(hist) = 0 THEN EmptyFrame
  ELSE [ columns |-> StockColumns,
         rows |-> [i \in 1..Len(hist) |->
                     [date |-> hist[i].Date, open |-> hist[i].Open, high |-> hist[i].High,
                      low |-> hist[i].Low, close |-> hist[i].Close,
                      volume |-> hist[i].Volume, dividends |-> hist[i].Dividends,
                      stock_splits |-> hist[i].StockSplits, source |-> "yahoo_finance"]] ]

AllRows(d, P(_)) == \A i \in 1..Len(d.rows) : P(d.rows[i])

StockValidateAll(d) ==
  LET negative(r) == Lt(r.open, 0) \/ Lt(r.high, 0) \/ Lt(r.low, 0) \/ Lt(r.close, 0)
      high_lt_low(r) == Lt(r.high, r.low)
      open_out(r) == Lt(r.open, r.low) \/ Gt(r.open, r.high)
      close_out(r) == Lt(r.close, r.low) \/ Gt(r.close, r.high)
  IN  /\ ~AllRows(d, negative)
      /\ ~AllRows(d, high_lt_low)
      /\ ~AllRows(d, open_out)
      /\ ~AllRows(d, close_out)

\* validate_data: TRUE when it returns True, FALSE when it raises ValueError
StockValidate(d) ==
  LET negative(r) == Lt(r.open, 0) \/ Lt(r.high, 0) \/ Lt(r.low, 0) \/ Lt(r.close, 0)
      high_lt_low(r) == Lt(r.high, r.low)
      open_out(r) == Lt(r.open, r.low) \/ Gt(r.open, r.high)
      close_out(r) == Lt(r.close, r.low) \/ Gt(r.close, r.high)
  IN  /\ ~AnyRow(d, negative)
      /\ ~AnyRow(d, high_lt_low)
      /\ ~AnyRow(d, open_out)
      /\ ~AnyRow(d, close_out)

StockQualityScoreAdds(d) ==
  LET high_lt_low(r) == Lt(r.high, r.low)
      ohlc_null(r) == r.open = NaN \/ r.high = NaN \/ r.low = NaN \/ r.close = NaN
  IN  100 + (IF AnyRow(d, high_lt_low) THEN 20 ELSE 0)
          + (IF AnyRow(d, ohlc_null) THEN 30 ELSE 0)

StockQualityScorePerRow(d) ==
  LET high_lt_low(r) == Lt(r.high, r.low)
      open_out(r) == Lt(r.open, r.low) \/ Gt(r.open, r.high)
      close_out(r) == Lt(r.close, r.low) \/ Gt(r.close, r.high)
      ohlc_null(r) == r.open = NaN \/ r.high = NaN \/ r.low = NaN \/ r.close = NaN
      count(P(_)) == Cardinality({i \in 1..Len(d.rows) : P(d.rows[i])})
  IN  100 - 20 * count(high_lt_low) - 10 * count(open_out)
          - 10 * count(close_out) - 30 * count(ohlc_null)

StockQualityScore(d) ==
  LET high_lt_low(r) == Lt(r.high, r.low)
      open_out(r) == Lt(r.open, r.low) \/ Gt(r.open, r.high)
      close_out(r) == Lt(r.close, r.low) \/ Gt(r.close, r.high)
      ohlc_null(r) == r.open = NaN \/ r.high = NaN \/ r.low = NaN \/ r.close = NaN
  IN  100 - (IF AnyRow(d, high_lt_low) THEN 20 ELSE 0)
          - (IF AnyRow(d, open_out) THEN 10 ELSE 0)
          - (IF AnyRow(d, close_out) THEN 10 ELSE 0)
          - (IF AnyRow(d, ohlc_null) THEN 30 ELSE 0)

StockMergeKeys == <<"TICKER", "DATE">>

\* ---------------------------------------------------------------- NewsLoader
\* last_date.strftime('%Y-%m-%d'): the calendar day of an instant
DayOf(ts) == (ts + 1) \div 2

\* one element of response.json()['articles']
Articles ==
  { [title |-> ti, description |-> "D", content |-> "C", author |-> "A",
     source_name |-> "S", url |-> "U", publishedAt |-> ts] :
       ti \in {"T", NULL}, ts \in Instants }

\* GET /v2/everything?...&sortBy=publishedAt[&from=<day>]: at most pageSize articles,
\* newest first, none published before the day `from`
Everything(from) ==
  {a \in UNION {[1..n -> Articles] : n \in 0..MaxBatch} :
     /\ \A i \in 1..Len(a) : from = None \/ DayOf(a[i].publishedAt) >= from
     /\ \A i \in 1..Len(a) - 1 : a[i].publishedAt >= a[i + 1].publishedAt}

NewsColumns ==
  <<"article_id", "title", "description", "content", "author", "source_name", "url",
    "published_at">>

\* fetch_data after the request: one record per article under a fresh uuid4
NewsFrame(articles, id) ==
  IF Len(articles) = 0 THEN EmptyFrame
  ELSE [ columns |-> NewsColumns,
         rows |-> [i \in 1..Len(articles) |->
                     [article_id |-> id + i - 1, title |-> articles[i].title,
                      description |-> articles[i].description,
                      content |-> articles[i].content, author |-> articles[i].author,
                      source_name |-> articles[i].source_name, url |-> articles[i].url,
                      published_at |-> articles[i].publishedAt]] ]

\* validate_data: TRUE when it returns True, FALSE when it raises ValueError
NewsValidate(d) ==
  LET no_title(r) == r.title = NULL
      no_url(r) == r.url = NULL
      no_date(r) == r.published_at = NaN
  IN  /\ ~AnyRow(d, no_title)
      /\ ~AnyRow(d, no_url)
      /\ ~AnyRow(d, no_date)

NewsQualityScore(d) ==
  LET no_title(r) == r.title = NULL
      no_content(r) == r.content = NULL
      no_author(r) == r.author = NULL
      no_description(r) == r.description = NULL
  IN  100 - (IF AnyRow(d, no_title) THEN 30 ELSE 0)
          - (IF AnyRow(d, no_content) THEN 10 ELSE 0)
          - (IF AnyRow(d, no_author) THEN 10 ELSE 0)
          - (IF AnyRow(d, no_description) THEN 10 ELSE 0)

NewsMergeKeys == <<"ARTICLE_ID">>

\* ---------------------------------------------------------------- the other loaders
\* FundamentalsLoader and SECFilingLoader: the frame's columns as load hands them to
\* _load_to_snowflake, and the merge keys
FundamentalsColumns ==
  <<"fiscal_quarter", "market_cap", "revenue", "net_income", "eps", "pe_ratio",
    "profit_margin", "debt_to_equity", "total_assets", "total_liabilities", "source",
    "ticker", "ingested_at", "data_quality_score">>

FundamentalsMergeKeys == <<"TICKER", "FISCAL_QUARTER">>

SecColumns ==
  <<"cik", "company_name", "form_type", "filing_date", "report_date", "accession_number",
    "primary_document", "filing_text", "ticker", "ingested_at", "fiscal_year",
    "fiscal_period", "filing_url", "source", "data_quality_score">>

SecMergeKeys == <<"TICKER", "ACCESSION_NUMBER">>

\* ---------------------------------------------------------------- BaseDataLoader
TargetTable(l) == IF l = "stocks" THEN StockTable ELSE NewsTable

Loaders == {"stocks", "fundamentals", "news", "sec"}

MergeKeys(l) ==
  CASE l = "stocks" -> StockMergeKeys
    [] l = "fundamentals" -> FundamentalsMergeKeys
    [] l = "news" -> NewsMergeKeys
    [] l = "sec" -> SecMergeKeys

\* the columns of the frame a loader passes to _load_to_snowflake
LoadedColumns(l) ==
  CASE l = "stocks" -> StockColumns \o <<"ticker", "ingested_at", "data_quality_score">>
    [] l = "fundamentals" -> FundamentalsColumns
    [] l = "news" -> NewsColumns \o <<"ticker", "ingested_at", "data_quality_score">>
    [] l = "sec" -> SecColumns

\* transform_data: df['ticker'] = ticker; df['ingested_at'] = now, formatted to seconds
TransformData(d, t, now) == SetColumn(SetColumn(d, "ticker", t), "ingested_at", now)

Validate(l, d) == IF l = "stocks" THEN StockValidate(d) ELSE NewsValidate(d)

QualityScore(l, d) == IF l = "stocks" THEN StockQualityScore(d) ELSE NewsQualityScore(d)

UpdateColsExact(all_cols, match_keys) ==
  LET keep(c) == c \notin Range(match_keys)
  IN  SelectSeq(all_cols, keep)

\* [c for c in all_cols if c.upper() not in [k.upper() for k in match_keys]]
UpdateCols(all_cols, match_keys) ==
  LET keys == {Upper(k) : k \in Range(match_keys)}
      keep(c) == Upper(c) \notin keys
  IN  SelectSeq(all_cols, keep)

\* what every new load call starts from
Begin(l, t, e) ==
  /\ pc = "idle"
  /\ clock < MaxRuns
  /\ clock' = clock + 1
  /\ loader' = l
  /\ ticker' = t
  /\ error' = e
  /\ UNCHANGED <<score, call, calls, before, prev>>
  /\ UNCHANGED others

\* load, step 1 for StockPriceLoader: fetch_data returned (an empty frame ends the call)
StockFetch(t) ==
  /\ Begin("stocks", t, "")
  /\ LET last == GetLastLoadedDate(tables, StockTable, t, "DATE") IN
       \E hist \in History(last) :
          /\ last_date' = last
          /\ raw' = hist
          /\ df' = StockFrame(hist)
          /\ pc' = IF IsEmpty(StockFrame(hist)) THEN "failed" ELSE "fetched"
  /\ UNCHANGED <<tables, staging, nextId>>

\* load, step 1: the request raised, load's except clause returns False
StockFetchRaises(t) ==
  /\ Begin("stocks", t, "fetch")
  /\ last_date' = GetLastLoadedDate(tables, StockTable, t, "DATE")
  /\ raw' = <<>>
  /\ df' = EmptyFrame
  /\ pc' = "failed"
  /\ UNCHANGED <<tables, staging, nextId>>

\* load, step 1 for NewsLoader
NewsFetch(t) ==
  /\ Begin("news", t, "")
  /\ LET last == GetLastLoadedDate(tables, NewsTable, t, "PUBLISHED_AT")
         from == IF last # None THEN DayOf(last) ELSE None
     IN  \E articles \in Everything(from) :
            /\ last_date' = last
            /\ raw' = articles
            /\ df' = NewsFrame(articles, nextId)
            /\ nextId' = nextId + Len(articles)
            /\ pc' = IF IsEmpty(NewsFrame(articles, nextId)) THEN "failed" ELSE "fetched"
  /\ UNCHANGED <<tables, staging>>

NewsFetchRaises(t) ==
  /\ Begin("news", t, "fetch")
  /\ last_date' = GetLastLoadedDate(tables, NewsTable, t, "PUBLISHED_AT")
  /\ raw' = <<>>
  /\ df' = EmptyFrame
  /\ pc' = "failed"
  /\ UNCHANGED <<tables, staging, nextId>>

\* load, step 2
Transform ==
  /\ pc = "fetched"
  /\ df' = TransformData(df, ticker, clock)
  /\ pc' = "transformed"
  /\ UNCHANGED <<tables, staging, loader, ticker, last_date, raw, score, call, calls,
                 clock, nextId, error, before, prev>>
  /\ UNCHANGED others

\* validation whose verdict is logged and not acted on
ValidateDataAdvisory ==
  /\ pc = "transformed"
  /\ pc' = "validated"
  /\ UNCHANGED <<tables, staging, loader, ticker, last_date, raw, df, score, call, calls,
                 clock, nextId, error, before, prev>>
  /\ UNCHANGED others

\* load, step 3: a failed validation raises and load returns False
ValidateData ==
  /\ pc = "transformed"
  /\ pc' = IF Validate(loader, df) THEN "validated" ELSE "failed"
  /\ error' = IF Validate(loader, df) THEN "" ELSE "validation"
  /\ UNCHANGED <<tables, staging, loader, ticker, last_date, raw, df, score, call, calls,
                 clock, nextId, before, prev>>
  /\ UNCHANGED others

\* load, step 4
Score ==
  /\ pc = "validated"
  /\ score' = QualityScore(loader, df)
  /\ df' = SetColumn(df, "data_quality_score", QualityScore(loader, df))
  /\ pc' = "scored"
  /\ UNCHANGED <<tables, staging, loader, ticker, last_date, raw, call, calls,
                 clock, nextId, error, before, prev>>
  /\ UNCHANGED others

\* load with a gate on the score: a batch scored under 80 is not loaded
LoadToSnowflakeIfGood ==
  /\ pc = "scored"
  /\ IF score >= 80
     THEN /\ call' = [ target_table |-> TargetTable(loader),
                       staging_table |-> StagingName(TargetTable(loader)),
                       match_keys |-> MergeKeys(loader),
                       update_columns |-> UpdateCols(df.columns, MergeKeys(loader)) ]
          /\ calls' = calls + 1
          /\ pc' = "merge_data"
     ELSE /\ pc' = "failed"
          /\ UNCHANGED <<call, calls>>
  /\ UNCHANGED <<tables, staging, loader, ticker, last_date, raw, df, score,
                 clock, nextId, error, before, prev>>
  /\ UNCHANGED others

\* load, step 5: _load_to_snowflake builds the arguments and calls merge_data
LoadToSnowflake ==
  /\ pc = "scored"
  /\ call' = [ target_table |-> TargetTable(loader),
               staging_table |-> StagingName(TargetTable(loader)),
               match_keys |-> MergeKeys(loader),
               update_columns |-> UpdateCols(df.columns, MergeKeys(loader)) ]
  /\ calls' = calls + 1
  /\ pc' = "merge_data"
  /\ UNCHANGED <<tables, staging, loader, ticker, last_date, raw, df, score,
                 clock, nextId, error, before, prev>>
  /\ UNCHANGED others

\* merge_data: CREATE OR REPLACE TEMPORARY TABLE staging LIKE target
CreateStaging ==
  /\ pc = "merge_data"
  /\ staging' = [staging EXCEPT ![call.staging_table] = [exists |-> TRUE, rows |-> <<>>]]
  /\ pc' = "staging_created"
  /\ UNCHANGED <<tables, loader, ticker, last_date, raw, df, score, call, calls,
                 clock, nextId, error, before, prev>>
  /\ UNCHANGED others

\* merge_data: upper-case the columns, write_pandas(..., overwrite=True)
WritePandas ==
  /\ pc = "staging_created"
  /\ staging[call.staging_table].exists
  /\ df' = UpperColumns(df)
  /\ staging' = [staging EXCEPT ![call.staging_table].rows =
                                   StagedRows(UpperColumns(df), call.target_table)]
  /\ pc' = "staging_written"
  /\ UNCHANGED <<tables, loader, ticker, last_date, raw, score, call, calls,
                 clock, nextId, error, before, prev>>
  /\ UNCHANGED others

\* the MERGE applied its WHEN NOT MATCHED branch only
MergeInsertsOnly ==
  /\ pc = "staging_written"
  /\ tables' = [tables EXCEPT ![call.target_table] =
                  MergeInto(@, staging[call.staging_table].rows, call.match_keys,
                            <<>>, df.columns,
                            [i \in 1..Len(tables[call.target_table]) |-> 0])]
  /\ pc' = "done"
  /\ UNCHANGED <<staging, loader, ticker, last_date, raw, df, score, call, calls,
                 clock, nextId, error, before, prev>>
  /\ UNCHANGED others

\* merge_data: the MERGE statement, one atomic statement of the warehouse
Merge ==
  /\ pc = "staging_written"
  /\ \E p \in Picks(tables[call.target_table], staging[call.staging_table].rows,
                    call.match_keys) :
        tables' = [tables EXCEPT ![call.target_table] =
                     MergeInto(@, staging[call.staging_table].rows, call.match_keys,
                               call.update_columns, df.columns, p)]
  /\ pc' = "done"
  /\ UNCHANGED <<staging, loader, ticker, last_date, raw, df, score, call, calls,
                 clock, nextId, error, before, prev>>
  /\ UNCHANGED others

\* a failing statement that leaves the staged rows appended to the target
SqlFailsHalfWritten ==
  /\ InMerge
  /\ tables' = [tables EXCEPT ![call.target_table] = @ \o staging[call.staging_table].rows]
  /\ pc' = "failed"
  /\ error' = "upsert"
  /\ UNCHANGED <<staging, loader, ticker, last_date, raw, df, score, call, calls,
                 clock, nextId, before, prev>>
  /\ UNCHANGED others

\* an exception that leaves load instead of being caught
SqlFailsPropagates ==
  /\ InMerge
  /\ pc' = "raised"
  /\ error' = "upsert"
  /\ UNCHANGED <<tables, staging, loader, ticker, last_date, raw, df, score, call, calls,
                 clock, nextId, before, prev>>
  /\ UNCHANGED others

\* merge_data: a statement raised (the session, the staging write, or a MERGE
\* the warehouse refuses as nondeterministic); load's except clause returns False
SqlFails ==
  /\ InMerge
  /\ pc' = "failed"
  /\ error' = "upsert"
  /\ UNCHANGED <<tables, staging, loader, ticker, last_date, raw, df, score, call, calls,
                 clock, nextId, before, prev>>
  /\ UNCHANGED others

\* load, steps 2 and 4: transform_data or calculate_quality_score raised; load's
\* except clause returns False
StepRaises ==
  /\ pc \in {"fetched", "validated"}
  /\ error' = IF pc = "fetched" THEN "transform" ELSE "score"
  /\ pc' = "failed"
  /\ UNCHANGED <<tables, staging, loader, ticker, last_date, raw, df, score, call, calls,
                 clock, nextId, before, prev>>
  /\ UNCHANGED others

\* load returns True ("done") or False ("failed"); its locals are gone
Return ==
  /\ Returning
  /\ pc' = "idle"
  /\ prev' = IF pc = "done"
             THEN [ticker |-> ticker, raw |-> raw, rows |-> Len(tables[TargetTable(loader)])]
             ELSE prev
  /\ ticker' = ""
  /\ last_date' = None
  /\ raw' = <<>>
  /\ df' = EmptyFrame
  /\ score' = NaN
  /\ call' = NoCall
  /\ calls' = 0
  /\ error' = ""
  /\ before' = tables
  /\ UNCHANGED <<tables, staging, loader, clock, nextId>>
  /\ UNCHANGED others

\* ---------------------------------------------------------------- specification
NoStaging == [n \in StagingNames |-> [exists |-> FALSE, rows |-> <<>>]]

InitOf(l) ==
  /\ tables = [t \in TableNames |-> <<>>]
  /\ staging = NoStaging
  /\ pc = "idle"
  /\ loader = l
  /\ ticker = ""
  /\ last_date = None
  /\ raw = <<>>
  /\ df = EmptyFrame
  /\ score = NaN
  /\ call = NoCall
  /\ calls = 0
  /\ clock = 0
  /\ nextId = 1
  /\ error = ""
  /\ before = [t \in TableNames |-> <<>>]
  /\ prev = NoPrev
  /\ pipeline = NoPipeline
  /\ concurrent = NoConcurrent
  /\ download = NoDownload

\* the StockPriceLoader against an empty warehouse
Init == InitOf("stocks")

Next ==
  \/ \E t \in Tickers : StockFetch(t)
  \/ \E t \in Tickers : StockFetchRaises(t)
  \/ Transform
  \/ ValidateData
  \/ Score
  \/ LoadToSnowflake
  \/ CreateStaging
  \/ WritePandas
  \/ Merge
  \/ SqlFails
  \/ StepRaises
  \/ Return

Spec == Init /\ [][Next]_vars

\* the NewsLoader alone
InitNews == InitOf("news")

NextNews ==
  \/ \E t \in Tickers : NewsFetch(t)
  \/ \E t \in Tickers : NewsFetchRaises(t)
  \/ Transform
  \/ ValidateData
  \/ Score
  \/ LoadToSnowflake
  \/ CreateStaging
  \/ WritePandas
  \/ Merge
  \/ SqlFails
  \/ StepRaises
  \/ Return

SpecNews == InitNews /\ [][NextNews]_vars


\* the Upsert Engine alone: _load_to_snowflake called, and called again, with one
\* validated and scored price batch, over a table that already holds rows
PriorRows ==
  { [TICKER |-> t, DATE |-> d, OPEN |-> BarOk2.Open, HIGH |-> BarOk2.High,
     LOW |-> BarOk2.Low, CLOSE |-> BarOk2.Close, VOLUME |-> 100, DIVIDENDS |-> 0,
     STOCK_SPLITS |-> 0, SOURCE |-> "yahoo_finance", INGESTED_AT |-> 0,
     DATA_QUALITY_SCORE |-> 70] : t \in Tickers, d \in Dates }

ScoredFrame(hist, t, now) ==
  SetColumn(TransformData(StockFrame(hist), t, now), "data_quality_score",
            StockQualityScore(TransformData(StockFrame(hist), t, now)))

InitMerge ==
  /\ \E rows \in UNION {[1..n -> PriorRows] : n \in 0..MaxTarget} :
        /\ tables = [t \in TableNames |-> IF t = StockTable THEN rows ELSE <<>>]
        /\ before = tables
  /\ \E t \in Tickers, hist \in HistoryOf({BarOk, BarOk2}, None) :
        /\ Len(hist) > 0
        /\ ticker = t
        /\ raw = hist
        /\ df = ScoredFrame(hist, t, 1)
        /\ score = StockQualityScore(df)
  /\ staging = NoStaging
  /\ pc = "scored"
  /\ loader = "stocks"
  /\ last_date = None
  /\ call = NoCall
  /\ calls = 0
  /\ clock = 1
  /\ nextId = 1
  /\ error = ""
  /\ prev = NoPrev
  /\ pipeline = NoPipeline
  /\ concurrent = NoConcurrent
  /\ download = NoDownload

\* the caller invokes the engine once more with the batch it has just merged
UpsertAgain ==
  /\ pc = "done"
  /\ calls < 2
  /\ before' = tables
  /\ pc' = "scored"
  /\ UNCHANGED <<tables, staging, loader, ticker, last_date, raw, df, score, call, calls,
                 clock, nextId, error, prev>>
  /\ UNCHANGED others

NextMerge ==
  \/ LoadToSnowflake
  \/ CreateStaging
  \/ WritePandas
  \/ Merge
  \/ SqlFails
  \/ UpsertAgain

SpecMerge == InitMerge /\ [][NextMerge]_vars

\* ---------------------------------------------------------------- quality scorers
\* FundamentalsLoader.calculate_quality_score
FundamentalsQualityScore(d) ==
  LET no_revenue(r) == r.revenue = NaN
      no_net_income(r) == r.net_income = NaN
      no_eps(r) == r.eps = NaN
      no_pe_ratio(r) == r.pe_ratio = NaN
  IN  100 - (IF AnyRow(d, no_revenue) THEN 30 ELSE 0)
          - (IF AnyRow(d, no_net_income) THEN 20 ELSE 0)
          - (IF AnyRow(d, no_eps) THEN 10 ELSE 0)
          - (IF AnyRow(d, no_pe_ratio) THEN 10 ELSE 0)

\* scripts/load_sec_data.py calculate_quality_score (SEC company facts)
SecFactsQualityScore(d) ==
  LET no_period_start(r) == r.period_start = NaN
      no_fiscal_year(r) == r.fiscal_year = NaN
      no_accession_no(r) == r.accession_no = NULL
  IN  100 - (IF AnyRow(d, no_period_start) THEN 10 ELSE 0)
          - (IF AnyRow(d, no_fiscal_year) THEN 20 ELSE 0)
          - (IF AnyRow(d, no_accession_no) THEN 10 ELSE 0)

RECURSIVE SumLen(_, _)
\* the sum of df['filing_text'].str.len() over the first n rows, nulls skipped
SumLen(rows, n) ==
  IF n = 0 THEN 0
  ELSE SumLen(rows, n - 1) + (IF rows[n].filing_text = NaN THEN 0 ELSE rows[n].filing_text)

\* max(a, b)
Max(a, b) == IF a >= b THEN a ELSE b

\* SECFilingLoader.calculate_quality_score; a filing's text is its length in
\* characters, and the score is the fraction num / den (null_pct * 0.5 is not whole)
SecTextQualityScore(d) ==
  IF IsEmpty(d) THEN [num |-> 0, den |-> 1]
  ELSE LET n == Len(d.rows)
           nulls == Cardinality({i \in 1..n : d.rows[i].filing_text = NaN})
           total == SumLen(d.rows, n)
           \* avg_length < x, where the mean of no value is NaN and compares False
           avg_lt(x) == n - nulls > 0 /\ total < x * (n - nulls)
           deduction == IF avg_lt(10000) THEN 40 ELSE IF avg_lt(50000) THEN 20 ELSE 0
       IN  [num |-> Max((100 - deduction) * n - 50 * nulls, 0), den |-> n]

\* text_extractor.calculate_extraction_quality; a text is its number of words
\* (len(text.split())), 0 for a missing or empty text
CalculateExtractionQuality(mda_words, risk_words) ==
  Max(100 - (IF mda_words = 0 THEN 40 ELSE IF mda_words < 1000 THEN 15 ELSE 0)
          - (IF risk_words = 0 THEN 30 ELSE IF risk_words < 500 THEN 10 ELSE 0)
          - (IF mda_words > 100000 THEN 5 ELSE 0)
          - (IF risk_words > 100000 THEN 5 ELSE 0), 0)

Scorers == {"stocks", "fundamentals", "news", "sec_facts", "sec_text", "extraction"}

\* a whole score as a fraction
Whole(n) == [num |-> n, den |-> 1]

\* the scorer of each kind, applied to its batch
ScoreOf(l, d) ==
  CASE l = "stocks" -> Whole(StockQualityScore(d))
    [] l = "fundamentals" -> Whole(FundamentalsQualityScore(d))
    [] l = "news" -> Whole(NewsQualityScore(d))
    [] l = "sec_facts" -> Whole(SecFactsQualityScore(d))
    [] l = "sec_text" -> SecTextQualityScore(d)
    [] l = "extraction" ->
         Whole(CalculateExtractionQuality(d.rows[1].mda_words, d.rows[1].risk_words))

\* batch lengths and cell values the scorers are applied to
ScoreLens == {0, 1, 2}
Prices == {NaN, 1, 2}
TextLens == {NaN, 5000, 20000, 60000}
WordCounts == {0, 499, 500, 999, 1000, 100000, 100001}

ScoreRows(l) ==
  CASE l = "stocks" ->
         [open : Prices, high : Prices, low : Prices, close : Prices]
    [] l = "fundamentals" ->
         [revenue : {NaN, 1}, net_income : {NaN, 1}, eps : {NaN, 1}, pe_ratio : {NaN, 1}]
    [] l = "news" ->
         [title : {NULL, "T"}, content : {NULL, "C"}, author : {NULL, "A"},
          description : {NULL, "D"}]
    [] l = "sec_facts" ->
         [period_start : {NaN, 1}, fiscal_year : {NaN, 1}, accession_no : {NULL, "N"}]
    [] l = "sec_text" -> [filing_text : TextLens]
    [] l = "extraction" -> [mda_words : WordCounts, risk_words : WordCounts]

ScoreInputs(l) ==
  { [columns |-> <<>>, rows |-> rows] :
      rows \in UNION {[1..n -> ScoreRows(l)] :
                        n \in IF l = "extraction" THEN {1} ELSE ScoreLens} }

InitScore ==
  /\ loader \in Scorers
  /\ df \in ScoreInputs(loader)
  /\ pc = "score"
  /\ score = NaN
  /\ tables = [t \in TableNames |-> <<>>]
  /\ staging = NoStaging
  /\ ticker = ""
  /\ last_date = None
  /\ raw = <<>>
  /\ call = NoCall
  /\ calls = 0
  /\ clock = 0
  /\ nextId = 1
  /\ error = ""
  /\ before = [t \in TableNames |-> <<>>]
  /\ prev = NoPrev
  /\ pipeline = NoPipeline
  /\ concurrent = NoConcurrent
  /\ download = NoDownload

\* score = calculate_quality_score(df)
CalculateQualityScore ==
  /\ pc = "score"
  /\ score' = ScoreOf(loader, df)
  /\ pc' = "returned"
  /\ UNCHANGED <<tables, staging, loader, ticker, last_date, raw, df, call, calls,
                 clock, nextId, error, before, prev>>
  /\ UNCHANGED others

NextScore == CalculateQualityScore

SpecScore == InitScore /\ [][NextScore]_vars

\* ---------------------------------------------------------------- run_pipeline
MaxTickers == 3

\* the ticker lists run_pipeline is given or finds in config/tickers.yaml
TickerLists == UNION {[1..n -> Tickers] : n \in 0..MaxTickers}

\* the order in which run_pipeline calls the loaders for one ticker
LoaderOrder == <<"stocks", "fundamentals", "news", "sec">>

\* load_stocks, load_fundamentals, load_news, load_sec: the loaders switched on
Flags == SUBSET Loaders

NoResults == [success |-> <<>>, partial |-> <<>>, failed |-> <<>>]

\* loader_results.values()
Values(loader_results) == {loader_results[i].ok : i \in 1..Len(loader_results)}

\* what the loop body did for one ticker: the loaders it called, in call order, and
\* how many of the calls returned True
Attempt(loader_results) ==
  [ loaders |-> [i \in 1..Len(loader_results) |-> loader_results[i].loader],
    succeeded |-> Cardinality({i \in 1..Len(loader_results) : loader_results[i].ok}) ]

BucketAnySucceeds(loader_results) ==
  IF TRUE \in Values(loader_results) THEN "success"
  ELSE IF FALSE \in Values(loader_results) THEN "failed" ELSE "success"

\* all(...) -> success, elif any(...) -> partial, else failed
Bucket(loader_results) ==
  IF \A v \in Values(loader_results) : v THEN "success"
  ELSE IF \E v \in Values(loader_results) : v THEN "partial"
  ELSE "failed"

\* the loaders still to call for the current ticker, in call order
Pending ==
  SelectSeq(LoaderOrder,
            LAMBDA l : /\ l \in pipeline.enabled
                       /\ \A i \in 1..Len(pipeline.loader_results) :
                             pipeline.loader_results[i].loader # l)

loaderVars ==
  <<tables, staging, pc, loader, ticker, last_date, raw, df, score, call, calls,
    clock, nextId, error, before, prev, concurrent, download>>

\* no SECFilingLoader.load call under way
NoSecCall == [pc |-> "idle"]

\* run_pipeline(tickers, load_stocks, load_fundamentals, load_news, load_sec) is called
InitPipeline ==
  /\ \E given \in BOOLEAN, list \in TickerLists, flags \in Flags :
        /\ given \/ list = <<>>
        /\ pipeline = [ at |-> "start", given |-> given, tickers |-> list,
                        enabled |-> flags, idx |-> 1, loader_results |-> <<>>,
                        results |-> NoResults, history |-> <<>>,
                        sec |-> NoSecCall, unknown |-> {}, sec_merges |-> {} ]
  /\ tables = [t \in TableNames |-> <<>>]
  /\ staging = NoStaging
  /\ pc = "idle"
  /\ loader = ""
  /\ ticker = ""
  /\ last_date = None
  /\ raw = <<>>
  /\ df = EmptyFrame
  /\ score = NaN
  /\ call = NoCall
  /\ calls = 0
  /\ clock = 0
  /\ nextId = 1
  /\ error = ""
  /\ before = [t \in TableNames |-> <<>>]
  /\ prev = NoPrev
  /\ concurrent = NoConcurrent
  /\ download = NoDownload

\* if tickers is None: tickers = load_tickers()
LoadTickers ==
  /\ pipeline.at = "start"
  /\ \E list \in TickerLists :
        /\ pipeline.given => list = pipeline.tickers
        /\ pipeline' = [pipeline EXCEPT !.tickers = list, !.at = "connect"]
  /\ UNCHANGED loaderVars

\* load_tickers raised: tickers.yaml does not parse, or is empty (config is None)
LoadTickersRaises ==
  /\ pipeline.at = "start"
  /\ ~pipeline.given
  /\ pipeline' = [pipeline EXCEPT !.at = "raised"]
  /\ UNCHANGED loaderVars

\* sf_client = SnowflakeClient(); the loaders are built; results = {...}
Connect ==
  /\ pipeline.at = "connect"
  /\ pipeline' = [pipeline EXCEPT !.at = "loop"]
  /\ UNCHANGED loaderVars

\* SnowflakeClient() raised: an environment variable is missing, or no session
ConnectRaises ==
  /\ pipeline.at = "connect"
  /\ pipeline' = [pipeline EXCEPT !.at = "raised"]
  /\ UNCHANGED loaderVars

\* loader_results[l] = loaders[l].load(ticker): load returns True or False and
\* raises nothing, so the except clause of the loop body has no step
CallLoad(ok) ==
  /\ pipeline.at = "loop"
  /\ pipeline.idx <= Len(pipeline.tickers)
  /\ Len(Pending) > 0
  /\ pipeline' = [pipeline EXCEPT
                    !.loader_results = Append(@, [loader |-> Head(Pending), ok |-> ok])]
  /\ UNCHANGED loaderVars

CategorizeBreaks ==
  /\ pipeline.at = "loop"
  /\ pipeline.idx <= Len(pipeline.tickers)
  /\ Len(Pending) = 0
  /\ pipeline' = [pipeline EXCEPT
                    !.results[Bucket(pipeline.loader_results)] =
                        Append(@, pipeline.tickers[pipeline.idx]),
                    !.history = Append(@, Attempt(pipeline.loader_results)),
                    !.loader_results = <<>>,
                    !.idx = IF Bucket(pipeline.loader_results) = "failed"
                            THEN Len(pipeline.tickers) + 1 ELSE @ + 1]
  /\ UNCHANGED loaderVars

\* the loop body's end: the ticker goes to its bucket, the loop moves on
Categorize ==
  /\ pipeline.at = "loop"
  /\ pipeline.idx <= Len(pipeline.tickers)
  /\ Len(Pending) = 0
  /\ pipeline' = [pipeline EXCEPT
                    !.results[Bucket(pipeline.loader_results)] =
                        Append(@, pipeline.tickers[pipeline.idx]),
                    !.history = Append(@, Attempt(pipeline.loader_results)),
                    !.loader_results = <<>>,
                    !.idx = @ + 1]
  /\ UNCHANGED loaderVars

\* after the loop: sf_client.close(), the summary is logged, return results
Close ==
  /\ pipeline.at = "loop"
  /\ pipeline.idx > Len(pipeline.tickers)
  /\ pipeline' = [pipeline EXCEPT !.at = "returned"]
  /\ UNCHANGED loaderVars

\* sf_client.close() raised
CloseRaises ==
  /\ pipeline.at = "loop"
  /\ pipeline.idx > Len(pipeline.tickers)
  /\ pipeline' = [pipeline EXCEPT !.at = "raised"]
  /\ UNCHANGED loaderVars

NextPipeline ==
  \/ LoadTickers
  \/ LoadTickersRaises
  \/ Connect
  \/ ConnectRaises
  \/ \E ok \in BOOLEAN : CallLoad(ok)
  \/ Categorize
  \/ Close
  \/ CloseRaises

SpecPipeline == InitPipeline /\ [][NextPipeline]_vars

\* ---------------------------------------------------------------- SECFilingLoader in run_pipeline
\* run_pipeline's loop with the SEC loader's load call in steps: get_cik, fetch_data,
\* the rest of load
SecTickers == {"AAPL", "ZZZZ"}

SecTickerLists == UNION {[1..n -> SecTickers] : n \in {1, 2}}

\* get_cik's hardcoded fallback
common_ciks == [AAPL |-> "0000320193", MSFT |-> "0000789019", GOOGL |-> "0001652044"]

\* what get_cik can return for a ticker: a CIK from the cache, the SEC endpoints or
\* the fallback; None (NULL) when no method finds the ticker
GetCik(t) ==
  IF t \in DOMAIN common_ciks THEN {common_ciks[t]} ELSE {"0000000001", NULL}

\* the filings fetch_data collects with their text, at most max_filings = 2
SecFilingCounts == {0, 1, 2}

SecFetchDataAnyCik(cik, filings) == filings

\* fetch_data: the number of rows of the frame it returns; pd.DataFrame() when the
\* CIK was not found
SecFetchData(cik, filings) == IF cik = NULL THEN 0 ELSE filings

InitSec ==
  /\ \E list \in SecTickerLists, flags \in {f \in Flags : "sec" \in f} :
        pipeline = [ at |-> "loop", given |-> TRUE, tickers |-> list,
                     enabled |-> flags, idx |-> 1, loader_results |-> <<>>,
                     results |-> NoResults, history |-> <<>>,
                     sec |-> NoSecCall, unknown |-> {}, sec_merges |-> {} ]
  /\ tables = [t \in TableNames |-> <<>>]
  /\ staging = NoStaging
  /\ pc = "idle"
  /\ loader = ""
  /\ ticker = ""
  /\ last_date = None
  /\ raw = <<>>
  /\ df = EmptyFrame
  /\ score = NaN
  /\ call = NoCall
  /\ calls = 0
  /\ clock = 0
  /\ nextId = 1
  /\ error = ""
  /\ before = [t \in TableNames |-> <<>>]
  /\ prev = NoPrev
  /\ concurrent = NoConcurrent
  /\ download = NoDownload

\* the SEC loader is the next to call for the current ticker
SecIsNext ==
  /\ pipeline.at = "loop"
  /\ pipeline.idx <= Len(pipeline.tickers)
  /\ Len(Pending) > 0
  /\ Head(Pending) = "sec"

\* a loader other than the SEC loader returns True or False
CallOtherLoad(ok) ==
  /\ Len(Pending) > 0
  /\ Head(Pending) # "sec"
  /\ CallLoad(ok)

\* loaders['sec'].load(ticker, max_filings=2): fetch_data calls get_cik
SecGetCik ==
  /\ SecIsNext
  /\ pipeline.sec.pc = "idle"
  /\ \E cik \in GetCik(pipeline.tickers[pipeline.idx]) :
        pipeline' = [pipeline EXCEPT
                       !.sec = [pc |-> "get_cik", cik |-> cik],
                       !.unknown = IF cik = NULL THEN @ \cup {pipeline.idx} ELSE @]
  /\ UNCHANGED loaderVars

\* fetch_data returns; load returns False on an empty frame
SecFetch ==
  /\ SecIsNext
  /\ pipeline.sec.pc = "get_cik"
  /\ \E filings \in SecFilingCounts :
        LET rows == SecFetchData(pipeline.sec.cik, filings) IN
        pipeline' =
          IF rows = 0
          THEN [pipeline EXCEPT
                  !.sec = NoSecCall,
                  !.loader_results = Append(@, [loader |-> "sec", ok |-> FALSE])]
          ELSE [pipeline EXCEPT !.sec = [pc |-> "fetched", cik |-> pipeline.sec.cik]]
  /\ UNCHANGED loaderVars

\* the rest of load on a non-empty frame: it returns True after merge_data returned,
\* False when a step raised or the validator refused
SecLoadRest(ok) ==
  /\ SecIsNext
  /\ pipeline.sec.pc = "fetched"
  /\ pipeline' = [pipeline EXCEPT
                    !.sec = NoSecCall,
                    !.sec_merges = IF ok THEN @ \cup {pipeline.idx} ELSE @,
                    !.loader_results = Append(@, [loader |-> "sec", ok |-> ok])]
  /\ UNCHANGED loaderVars

NextSec ==
  \/ \E ok \in BOOLEAN : CallOtherLoad(ok)
  \/ SecGetCik
  \/ SecFetch
  \/ \E ok \in BOOLEAN : SecLoadRest(ok)
  \/ Categorize
  \/ Close
  \/ CloseRaises

SpecSec == InitSec /\ [][NextSec]_vars

\* ---------------------------------------------------------------- concurrent runs
\* two runs of the pipeline at once, each with the session its SnowflakeClient opened
Sessions == {"A", "B"}

StagingKeyShared(session, name) == <<"", name>>

\* CREATE ... TEMPORARY TABLE: the table belongs to the session that created it, and
\* its name resolves within that session only
StagingKey(session, name) == <<session, name>>

\* the batch run r passes to merge_data, as rows of its staging table
OwnBatch(r) == StagedRows(UpperColumns(concurrent.runs[r].df), StockTable)

\* the price batches of the two runs: run A's bars and load time differ from run B's
BatchesOf(r) ==
  { ScoredFrame(hist, t, IF r = "A" THEN 1 ELSE 2) :
      t \in Tickers,
      hist \in {h \in HistoryOf(IF r = "A" THEN {BarOk} ELSE {BarOk2}, None) : Len(h) > 0} }

InitConcurrent ==
  /\ \E a \in BatchesOf("A"), b \in BatchesOf("B") :
        concurrent =
          [ at |-> "running",
            temp |-> <<>>,
            runs |-> [r \in Sessions |->
                        [ pc |-> "scored", df |-> IF r = "A" THEN a ELSE b,
                          call |-> NoCall, merged |-> <<>> ]] ]
  /\ tables = [t \in TableNames |-> <<>>]
  /\ staging = NoStaging
  /\ pc = "idle"
  /\ loader = "stocks"
  /\ ticker = ""
  /\ last_date = None
  /\ raw = <<>>
  /\ df = EmptyFrame
  /\ score = NaN
  /\ call = NoCall
  /\ calls = 0
  /\ clock = 0
  /\ nextId = 1
  /\ error = ""
  /\ before = [t \in TableNames |-> <<>>]
  /\ prev = NoPrev
  /\ pipeline = NoPipeline
  /\ download = NoDownload

runVars ==
  <<staging, pc, loader, ticker, last_date, raw, df, score, call, calls,
    clock, nextId, error, before, prev, pipeline, download>>

\* run r: _load_to_snowflake builds merge_data's arguments
ConcLoadToSnowflake(r) ==
  /\ concurrent.runs[r].pc = "scored"
  /\ concurrent' =
       [concurrent EXCEPT
          !.runs[r].call =
             [ target_table |-> StockTable,
               staging_table |-> StagingName(StockTable),
               match_keys |-> StockMergeKeys,
               update_columns |-> UpdateCols(concurrent.runs[r].df.columns,
                                             StockMergeKeys) ],
          !.runs[r].pc = "merge_data"]
  /\ UNCHANGED <<tables, runVars>>

\* run r: CREATE OR REPLACE TEMPORARY TABLE staging LIKE target, in r's session
ConcCreateStaging(r) ==
  LET key == StagingKey(r, concurrent.runs[r].call.staging_table) IN
  /\ concurrent.runs[r].pc = "merge_data"
  /\ concurrent' =
       [concurrent EXCEPT
          !.temp = [k \in DOMAIN concurrent.temp \cup {key} |->
                      IF k = key THEN <<>> ELSE concurrent.temp[k]],
          !.runs[r].pc = "staging_created"]
  /\ UNCHANGED <<tables, runVars>>

\* run r: write_pandas(df, staging_table, overwrite=True), in r's session
ConcWritePandas(r) ==
  LET key == StagingKey(r, concurrent.runs[r].call.staging_table) IN
  /\ concurrent.runs[r].pc = "staging_created"
  /\ key \in DOMAIN concurrent.temp
  /\ concurrent' =
       [concurrent EXCEPT
          !.temp[key] = OwnBatch(r),
          !.runs[r].pc = "staging_written"]
  /\ UNCHANGED <<tables, runVars>>

\* run r: the MERGE, reading the staging table as r's session sees it
ConcMerge(r) ==
  LET key == StagingKey(r, concurrent.runs[r].call.staging_table)
      c == concurrent.runs[r].call
  IN
  /\ concurrent.runs[r].pc = "staging_written"
  /\ key \in DOMAIN concurrent.temp
  /\ \E p \in Picks(tables[c.target_table], concurrent.temp[key], c.match_keys) :
        tables' = [tables EXCEPT ![c.target_table] =
                     MergeInto(@, concurrent.temp[key], c.match_keys, c.update_columns,
                               UpperColumns(concurrent.runs[r].df).columns, p)]
  /\ concurrent' =
       [concurrent EXCEPT
          !.runs[r].merged = concurrent.temp[key],
          !.runs[r].pc = "done"]
  /\ UNCHANGED runVars

\* run r: a statement of merge_data raised; load returns False
ConcSqlFails(r) ==
  /\ concurrent.runs[r].pc \in {"merge_data", "staging_created", "staging_written"}
  /\ concurrent' = [concurrent EXCEPT !.runs[r].pc = "failed"]
  /\ UNCHANGED <<tables, runVars>>

NextConcurrent ==
  \E r \in Sessions :
     \/ ConcLoadToSnowflake(r)
     \/ ConcCreateStaging(r)
     \/ ConcWritePandas(r)
     \/ ConcMerge(r)
     \/ ConcSqlFails(r)

SpecConcurrent == InitConcurrent /\ [][NextConcurrent]_vars

\* ---------------------------------------------------------------- one price batch
\* load from the point where fetch_data has returned a non-empty batch, over every
\* shape of bar: a price is negative, missing, or one of two positive values
BatchPrices == {-1, NaN, 1, 2}

BatchBars == [Open : BatchPrices, High : BatchPrices, Low : BatchPrices, Close : BatchPrices]

BatchLens == {1, 2}

\* one bar per trading day, in index order
Batches ==
  { [i \in 1..Len(bars) |-> HistRow(i, bars[i])] :
      bars \in UNION {[1..n -> BatchBars] : n \in BatchLens} }

InitBatch ==
  /\ \E hist \in Batches :
        /\ raw = hist
        /\ df = StockFrame(hist)
  /\ ticker = "AAPL"
  /\ loader = "stocks"
  /\ pc = "fetched"
  /\ tables = [t \in TableNames |-> <<>>]
  /\ before = [t \in TableNames |-> <<>>]
  /\ staging = NoStaging
  /\ last_date = None
  /\ score = NaN
  /\ call = NoCall
  /\ calls = 0
  /\ clock = 1
  /\ nextId = 1
  /\ error = ""
  /\ prev = NoPrev
  /\ pipeline = NoPipeline
  /\ concurrent = NoConcurrent
  /\ download = NoDownload

NextBatch ==
  \/ Transform
  \/ ValidateData
  \/ Score
  \/ LoadToSnowflake
  \/ CreateStaging
  \/ WritePandas
  \/ Merge
  \/ SqlFails
  \/ StepRaises

SpecBatch == InitBatch /\ [][NextBatch]_vars

\* ---------------------------------------------------------------- a worked run
\* StockPriceLoader.load("AAPL") on a source that answers with five consistent daily
\* bars, against an empty table; then load again on the identical answer
ExampleDates == <<1, 2, 3, 4, 5>>

ExampleFetches ==
  { [i \in 1..Len(ExampleDates) |-> HistRow(ExampleDates[i], bars[i])] :
      bars \in [1..Len(ExampleDates) -> {BarOk, BarOk2}] }

InitExample ==
  /\ \E hist \in ExampleFetches :
        /\ raw = hist
        /\ df = StockFrame(hist)
  /\ ticker = "AAPL"
  /\ loader = "stocks"
  /\ pc = "fetched"
  /\ tables = [t \in TableNames |-> <<>>]
  /\ before = [t \in TableNames |-> <<>>]
  /\ staging = NoStaging
  /\ last_date = None
  /\ score = NaN
  /\ call = NoCall
  /\ calls = 0
  /\ clock = 1
  /\ nextId = 1
  /\ error = ""
  /\ prev = NoPrev
  /\ pipeline = NoPipeline
  /\ concurrent = NoConcurrent
  /\ download = NoDownload

\* load returned True; it is called again and fetch_data returns the same bars
FetchAgain ==
  /\ pc = "done"
  /\ clock < MaxRuns
  /\ clock' = clock + 1
  /\ prev' = [ticker |-> ticker, raw |-> raw, rows |-> Len(tables[StockTable])]
  /\ before' = tables
  /\ last_date' = GetLastLoadedDate(tables, StockTable, ticker, "DATE")
  /\ df' = StockFrame(raw)
  /\ score' = NaN
  /\ call' = NoCall
  /\ calls' = 0
  /\ pc' = "fetched"
  /\ UNCHANGED <<tables, staging, loader, ticker, raw, nextId, error>>
  /\ UNCHANGED others

NextExample ==
  \/ Transform
  \/ ValidateData
  \/ Score
  \/ LoadToSnowflake
  \/ CreateStaging
  \/ WritePandas
  \/ Merge
  \/ SqlFails
  \/ StepRaises
  \/ FetchAgain

SpecExample == InitExample /\ [][NextExample]_vars

\* ---------------------------------------------------------------- the four loaders
\* load for each of the four loaders, from the source's answer to the call of
\* merge_data

\* yf.Ticker(ticker).info: the two fields the validator reads, present or not
Infos == [marketCap : {NaN, -1, 1}, totalRevenue : {NaN, -1, 1}]

\* FundamentalsLoader.fetch_data: one row under the fixed fiscal quarter
FundamentalsFrame(info) ==
  [ columns |-> <<"fiscal_quarter", "market_cap", "revenue", "net_income", "eps",
                  "pe_ratio", "profit_margin", "debt_to_equity", "total_assets",
                  "total_liabilities", "source">>,
    rows |-> << [ fiscal_quarter |-> "Q4 2024", market_cap |-> info.marketCap,
                  revenue |-> info.totalRevenue, net_income |-> 1, eps |-> 1,
                  pe_ratio |-> 1, profit_margin |-> 1, debt_to_equity |-> 1,
                  total_assets |-> 1, total_liabilities |-> 1,
                  source |-> "yahoo_finance" ] >> ]

\* FundamentalsLoader.validate_data
FundamentalsValidate(d) ==
  LET neg_cap(r) == Lt(r.market_cap, 0)
      neg_revenue(r) == Lt(r.revenue, 0)
  IN  ~AnyRow(d, neg_cap) /\ ~AnyRow(d, neg_revenue)

\* one entry of data['filings']['recent'], with the text its document holds (a
\* length in characters, NaN when the document cannot be fetched)
RecentFilings ==
  [ form : {"10-K", "8-K"}, filingDate : {1}, reportDate : {1},
    accessionNumber : {NULL, "0000320193-24-000123"}, primaryDocument : {"doc.htm"},
    text : {NaN, 60000} ]

Recent == UNION {[1..n -> RecentFilings] : n \in 0..MaxBatch}

FetchFilingTextAnyway(f) == f.text

\* _fetch_filing_text: accession.replace raises on None, the except clause returns None
FetchFilingText(f) == IF f.accessionNumber = NULL THEN NaN ELSE f.text

\* the first n elements of a sequence
Take(seq, n) == SubSeq(seq, 1, IF Len(seq) < n THEN Len(seq) ELSE n)

\* SECFilingLoader.fetch_data after get_cik found the CIK: the filings of the wanted
\* forms whose text was fetched, max_filings = 2 of them at most
SecFrame(cik, recent) ==
  LET wanted(f) == f.form \in {"10-K", "10-Q"} /\ FetchFilingText(f) # NaN
      filings == Take(SelectSeq(recent, wanted), 2)
  IN  IF Len(filings) = 0 THEN EmptyFrame
      ELSE [ columns |-> <<"cik", "company_name", "form_type", "filing_date",
                           "report_date", "accession_number", "primary_document",
                           "filing_text">>,
             rows |-> [i \in 1..Len(filings) |->
                         [ cik |-> cik, company_name |-> "Apple Inc.",
                           form_type |-> filings[i].form,
                           filing_date |-> filings[i].filingDate,
                           report_date |-> filings[i].reportDate,
                           accession_number |-> filings[i].accessionNumber,
                           primary_document |-> filings[i].primaryDocument,
                           filing_text |-> FetchFilingText(filings[i]) ]] ]

\* SECFilingLoader.validate_data
SecValidate(d) == ~IsEmpty(d) /\ "filing_text" \in Range(d.columns)

\* a row with more cells
Extend(r, extra) ==
  [k \in DOMAIN r \cup DOMAIN extra |-> IF k \in DOMAIN extra THEN extra[k] ELSE r[k]]

\* SECFilingLoader.transform_data
SecTransformData(d, t, now) ==
  IF IsEmpty(d) THEN d
  ELSE LET base == TransformData(d, t, now)
           kept == SelectSeq(base.rows, LAMBDA r : r.filing_text # NaN)
       IN  IF Len(kept) = 0 THEN [columns |-> base.columns, rows |-> <<>>]
           ELSE [ columns |-> base.columns
                                \o <<"fiscal_year", "fiscal_period", "filing_url", "source">>,
                  rows |-> [i \in 1..Len(kept) |->
                              Extend(kept[i],
                                     [ fiscal_year |-> kept[i].report_date,
                                       fiscal_period |-> kept[i].form_type,
                                       filing_url |-> kept[i].accession_number,
                                       source |-> "sec_edgar" ])] ]

\* get_target_table of each loader
TargetTableOf(l) ==
  CASE l = "stocks" -> "RAW.RAW_STOCK_PRICES"
    [] l = "fundamentals" -> "RAW.RAW_FUNDAMENTALS"
    [] l = "news" -> "RAW.RAW_NEWS"
    [] l = "sec" -> "RAW.RAW_SEC_FILING_TEXT"

\* f"TEMP_{target_table.split('.')[-1]}_STAGING" of each loader
StagingNameOf(l) ==
  CASE l = "stocks" -> "TEMP_RAW_STOCK_PRICES_STAGING"
    [] l = "fundamentals" -> "TEMP_RAW_FUNDAMENTALS_STAGING"
    [] l = "news" -> "TEMP_RAW_NEWS_STAGING"
    [] l = "sec" -> "TEMP_RAW_SEC_FILING_TEXT_STAGING"

\* what the source of each loader can answer
Answers(l) ==
  CASE l = "stocks" -> History(None)
    [] l = "fundamentals" -> {<<info>> : info \in Infos}
    [] l = "news" -> Everything(None)
    [] l = "sec" -> Recent

\* fetch_data of each loader on the source's answer
FrameOf(l, answer, id) ==
  CASE l = "stocks" -> StockFrame(answer)
    [] l = "fundamentals" -> FundamentalsFrame(answer[1])
    [] l = "news" -> NewsFrame(answer, id)
    [] l = "sec" -> SecFrame(common_ciks["AAPL"], answer)

\* transform_data of each loader
TransformOf(l, d, t, now) ==
  IF l = "sec" THEN SecTransformData(d, t, now) ELSE TransformData(d, t, now)

\* validate_data of each loader
ValidateOf(l, d) ==
  CASE l = "stocks" -> StockValidate(d)
    [] l = "fundamentals" -> FundamentalsValidate(d)
    [] l = "news" -> NewsValidate(d)
    [] l = "sec" -> SecValidate(d)

\* calculate_quality_score of each loader
QualityScoreOf(l, d) == ScoreOf(IF l = "sec" THEN "sec_text" ELSE l, d)

InitLoaders ==
  /\ loader \in Loaders
  /\ ticker \in Tickers
  /\ raw \in Answers(loader)
  /\ pc = "fetch"
  /\ df = EmptyFrame
  /\ tables = [t \in TableNames |-> <<>>]
  /\ before = [t \in TableNames |-> <<>>]
  /\ staging = NoStaging
  /\ last_date = None
  /\ score = NaN
  /\ call = NoCall
  /\ calls = 0
  /\ clock = 1
  /\ nextId = 1
  /\ error = ""
  /\ prev = NoPrev
  /\ pipeline = NoPipeline
  /\ concurrent = NoConcurrent
  /\ download = NoDownload

\* load steps 1 to 5 of any loader; an empty fetch ends the call
FetchAny ==
  /\ pc = "fetch"
  /\ df' = FrameOf(loader, raw, nextId)
  /\ nextId' = IF loader = "news" THEN nextId + Len(raw) ELSE nextId
  /\ pc' = IF IsEmpty(FrameOf(loader, raw, nextId)) THEN "failed" ELSE "fetched"
  /\ UNCHANGED <<tables, staging, loader, ticker, last_date, raw, score, call, calls,
                 clock, error, before, prev>>
  /\ UNCHANGED others

TransformAny ==
  /\ pc = "fetched"
  /\ df' = TransformOf(loader, df, ticker, clock)
  /\ pc' = "transformed"
  /\ UNCHANGED <<tables, staging, loader, ticker, last_date, raw, score, call, calls,
                 clock, nextId, error, before, prev>>
  /\ UNCHANGED others

ValidateAny ==
  /\ pc = "transformed"
  /\ pc' = IF ValidateOf(loader, df) THEN "validated" ELSE "failed"
  /\ error' = IF ValidateOf(loader, df) THEN "" ELSE "validation"
  /\ UNCHANGED <<tables, staging, loader, ticker, last_date, raw, df, score, call, calls,
                 clock, nextId, before, prev>>
  /\ UNCHANGED others

ScoreAny ==
  /\ pc = "validated"
  /\ score' = QualityScoreOf(loader, df)
  /\ df' = SetColumn(df, "data_quality_score", QualityScoreOf(loader, df))
  /\ pc' = "scored"
  /\ UNCHANGED <<tables, staging, loader, ticker, last_date, raw, call, calls,
                 clock, nextId, error, before, prev>>
  /\ UNCHANGED others

LoadToSnowflakeAny ==
  /\ pc = "scored"
  /\ call' = [ target_table |-> TargetTableOf(loader),
               staging_table |-> StagingNameOf(loader),
               match_keys |-> MergeKeys(loader),
               update_columns |-> UpdateCols(df.columns, MergeKeys(loader)) ]
  /\ calls' = calls + 1
  /\ pc' = "merge_data"
  /\ UNCHANGED <<tables, staging, loader, ticker, last_date, raw, df, score,
                 clock, nextId, error, before, prev>>
  /\ UNCHANGED others

NextLoaders ==
  \/ FetchAny
  \/ TransformAny
  \/ ValidateAny
  \/ ScoreAny
  \/ LoadToSnowflakeAny
  \/ StepRaises

SpecLoaders == InitLoaders /\ [][NextLoaders]_vars

\* ---------------------------------------------------------------- filing downloader
\* scripts/sec_filings/filing_downloader.py download_filings_for_ticker, for one
\* ticker and form type, run after run against one bucket and one documents table
FilingIds == {"000032019324000123", "000032019324000081"}

\* get_filing_index: the recent filings of the form type, each once
FilingIndexes ==
  {f \in UNION {[1..n -> FilingIds] : n \in 0..Cardinality(FilingIds)} :
     \A i, j \in 1..Len(f) : i # j => f[i] # f[j]}

\* raw_key(ticker, form_type, filing_id, ext)
RawKey(filing_id) == <<"filings/raw", "AAPL", "10-K", filing_id>>

\* no row of RAW.RAW_SEC_FILING_DOCUMENTS for a filing
NoDocument == [DOWNLOAD_STATUS |-> "none", S3_RAW_KEY |-> NULL]

\* upsert_filing_metadata: the MERGE on (FILING_ID, TICKER) sets the key and the status
\* of the matched row, or inserts the record
UpsertFilingMetadata(docs, filing_id, record) ==
  [docs EXCEPT ![filing_id] =
     [DOWNLOAD_STATUS |-> record.download_status, S3_RAW_KEY |-> record.s3_raw_key]]

\* filing_exists: head_object answered, or raised ClientError (False)
FilingExists(s3, filing_id) ==
  IF RawKey(filing_id) \in s3 THEN {TRUE, FALSE} ELSE {FALSE}

InitDownload ==
  /\ download = [ at |-> "idle", runs |-> 0, filings |-> <<>>, idx |-> 1,
                  step |-> "check", s3 |-> {},
                  docs |-> [f \in FilingIds |-> NoDocument],
                  downloaded |-> 0, skipped |-> 0, failed |-> 0 ]
  /\ tables = [t \in TableNames |-> <<>>]
  /\ staging = NoStaging
  /\ pc = "idle"
  /\ loader = ""
  /\ ticker = ""
  /\ last_date = None
  /\ raw = <<>>
  /\ df = EmptyFrame
  /\ score = NaN
  /\ call = NoCall
  /\ calls = 0
  /\ clock = 0
  /\ nextId = 1
  /\ error = ""
  /\ before = [t \in TableNames |-> <<>>]
  /\ prev = NoPrev
  /\ pipeline = NoPipeline
  /\ concurrent = NoConcurrent

downloadVars ==
  <<tables, staging, pc, loader, ticker, last_date, raw, df, score, call, calls,
    clock, nextId, error, before, prev, pipeline, concurrent>>

\* the filing the loop is at
Filing == download.filings[download.idx]

InLoop == download.at = "loop" /\ download.idx <= Len(download.filings)

\* download_filings_for_ticker is called; get_filing_index answers; with no filing
\* the call returns at once
GetFilingIndex ==
  /\ download.at = "idle"
  /\ download.runs < MaxRuns
  /\ \E filings \in FilingIndexes :
        download' = [download EXCEPT
                       !.runs = @ + 1,
                       !.filings = filings,
                       !.idx = 1,
                       !.step = "check",
                       !.downloaded = 0, !.skipped = 0, !.failed = 0,
                       !.at = IF Len(filings) = 0 THEN "idle" ELSE "loop"]
  /\ UNCHANGED downloadVars

\* step 2: the filing is in S3 already, skip it
Skip ==
  /\ InLoop
  /\ download.step = "check"
  /\ TRUE \in FilingExists(download.s3, Filing)
  /\ download' = [download EXCEPT !.skipped = @ + 1, !.idx = @ + 1]
  /\ UNCHANGED downloadVars

\* step 3: download_filing_document returns the local file, or raises
DownloadFilingDocument(ok) ==
  /\ InLoop
  /\ download.step = "check"
  /\ FALSE \in FilingExists(download.s3, Filing)
  /\ download' = [download EXCEPT !.step = IF ok THEN "downloaded" ELSE "except"]
  /\ UNCHANGED downloadVars

\* step 4: upload_filing puts the object, or raises
UploadFiling(ok) ==
  /\ InLoop
  /\ download.step = "downloaded"
  /\ download' = [download EXCEPT
                    !.s3 = IF ok THEN @ \cup {RawKey(Filing)} ELSE @,
                    !.step = IF ok THEN "uploaded" ELSE "except"]
  /\ UNCHANGED downloadVars

\* step 5: upsert_filing_metadata(record) with download_status "downloaded", or it raises
TrackDownloaded(ok) ==
  /\ InLoop
  /\ download.step = "uploaded"
  /\ download' =
       IF ok
       THEN [download EXCEPT
               !.docs = UpsertFilingMetadata(@, Filing,
                          [download_status |-> "downloaded", s3_raw_key |-> RawKey(Filing)]),
               !.downloaded = @ + 1,
               !.idx = @ + 1,
               !.step = "check"]
       ELSE [download EXCEPT !.step = "except"]
  /\ UNCHANGED downloadVars

\* the except clause: upsert_filing_metadata(fail_record), whose own failure is passed over
TrackFailed(ok) ==
  /\ InLoop
  /\ download.step = "except"
  /\ download' = [download EXCEPT
                    !.docs = IF ok
                             THEN UpsertFilingMetadata(@, Filing,
                                    [download_status |-> "failed", s3_raw_key |-> NULL])
                             ELSE @,
                    !.failed = @ + 1,
                    !.idx = @ + 1,
                    !.step = "check"]
  /\ UNCHANGED downloadVars

\* the loop is over: the summary is returned
ReturnSummary ==
  /\ download.at = "loop"
  /\ download.idx > Len(download.filings)
  /\ download' = [download EXCEPT !.at = "idle"]
  /\ UNCHANGED downloadVars

NextDownload ==
  \/ GetFilingIndex
  \/ Skip
  \/ \E ok \in BOOLEAN : DownloadFilingDocument(ok)
  \/ \E ok \in BOOLEAN : UploadFiling(ok)
  \/ \E ok \in BOOLEAN : TrackDownloaded(ok)
  \/ \E ok \in BOOLEAN : TrackFailed(ok)
  \/ ReturnSummary

SpecDownload == InitDownload /\ [][NextDownload]_vars

\* ---------------------------------------------------------------- properties
\* the cell of a frame or table row under column k, whatever the case of the name
CellOf(r, k) == r[CHOOSE c \in DOMAIN r : Upper(c) = Upper(k)]

SameKey(r1, r2, match_keys) == \A k \in Range(match_keys) : CellOf(r1, k) = CellOf(r2, k)

\* the rows merge_data was called with, as table rows
BatchRows == StagedRows(UpperColumns(df), call.target_table)

OldRows == before[call.target_table]
NewRows == tables[call.target_table]

UpdateListSplits(all_cols, match_keys, update_columns) ==
  LET keys == {Upper(k) : k \in Range(match_keys)}
      upd == {Upper(c) : c \in Range(update_columns)}
      all == {Upper(c) : c \in Range(all_cols)}
  IN  /\ upd \cap keys = {}
      /\ upd \cup (keys \cap all) = all

C3_KeysNeverUpdated ==
  /\ \A l \in Loaders :
        UpdateListSplits(LoadedColumns(l), MergeKeys(l),
                         UpdateCols(LoadedColumns(l), MergeKeys(l)))
  /\ calls > 0 => UpdateListSplits(df.columns, call.match_keys, call.update_columns)
  /\ pc = "done" =>
        \A i \in 1..Len(OldRows) :
           /\ SameKey(NewRows[i], OldRows[i], call.match_keys)
           /\ \A c \in DOMAIN OldRows[i] :
                 NewRows[i][c] # OldRows[i][c] =>
                    c \in {Upper(u) : u \in Range(call.update_columns)}

\* C3's case: a MERGE has matched and rewritten a row the table already held
C3_Witness ==
  /\ pc = "done"
  /\ \E i \in 1..Len(OldRows) : NewRows[i] # OldRows[i]

\* C4: a price batch with high < low in some row fails validation and never reaches
\* the engine: the call goes no further than validation, merge_data is not called,
\* the call does not return True and the target table stays as it was.
RawHighLtLow == \E i \in 1..Len(raw) : raw[i].High < raw[i].Low

C4_HighLtLowRejected ==
  (loader = "stocks" /\ pc # "idle" /\ RawHighLtLow) =>
     /\ pc \in {"fetched", "transformed", "failed"}
     /\ calls = 0
     /\ call = NoCall
     /\ tables = before

\* C4's case: a batch with one consistent bar and one bar with high < low was
\* rejected by the validator
C4_Witness ==
  /\ loader = "stocks"
  /\ pc = "failed"
  /\ error = "validation"
  /\ RawHighLtLow
  /\ \E i \in 1..Len(raw) : raw[i].High >= raw[i].Low
  /\ tables = before

\* C5: merge_data is never invoked with a batch in which two records have the same
\* merge-key tuple.
C5_NoDuplicateKeysReachMerge ==
  InMerge =>
    \A i, j \in 1..Len(df.rows) :
       i # j => ~SameKey(df.rows[i], df.rows[j], call.match_keys)

\* C6: the price table holds at most one row per (TICKER, DATE).
C6_OneRowPerMergeKey ==
  \A i, j \in 1..Len(tables[StockTable]) :
     i # j => ~SameKey(tables[StockTable][i], tables[StockTable][j], StockMergeKeys)

\* C7: a loader run for the same ticker on the same answer of the source as the last
\* successful run leaves the number of rows of the target table as that run left it.
C7_RerunAddsNoRows ==
  (pc = "done" /\ prev.ticker = ticker /\ prev.raw = raw) =>
     Len(tables[TargetTable(loader)]) = prev.rows

\* C8: the watermark a run resolved is the greatest DATE among the persisted rows of
\* its ticker, and it is None exactly when the table holds no row of that ticker.
RowsOf(tbl, t) == {i \in 1..Len(tbl) : tbl[i]["TICKER"] = t}

C8_WatermarkIsMax ==
  (loader = "stocks" /\ pc # "idle") =>
     LET tbl == before[StockTable]
         mine == RowsOf(tbl, ticker)
     IN  /\ last_date = None <=> mine = {}
         /\ last_date # None =>
               /\ \E i \in mine : tbl[i]["DATE"] = last_date
               /\ \A i \in mine : tbl[i]["DATE"] <= last_date

\* C8's case: the table holds rows, none of them of the run's ticker, and the run
\* resolved no watermark
C8_Witness ==
  /\ loader = "stocks"
  /\ pc = "fetched"
  /\ last_date = None
  /\ Len(tables[StockTable]) > 0

\* C9: the watermark of a ticker never decreases, and after a successful upsert it is
\* at least every DATE of the batch.
AtLeast(a, b) == b = None \/ (a # None /\ a >= b)

C9_WatermarkMonotonic ==
  [][ /\ \A t \in Tickers :
           AtLeast(GetLastLoadedDate(tables', StockTable, t, "DATE"),
                   GetLastLoadedDate(tables, StockTable, t, "DATE"))
      /\ (pc = "staging_written" /\ pc' = "done") =>
           \A i \in 1..Len(df.rows) :
              AtLeast(GetLastLoadedDate(tables', StockTable, ticker, "DATE"),
                      CellOf(df.rows[i], "DATE")) ]_vars

\* C9's case: a successful upsert has moved forward the watermark of a ticker that
\* already had one
C9_Witness ==
  /\ loader = "stocks"
  /\ pc = "done"
  /\ last_date # None
  /\ GetLastLoadedDate(tables, StockTable, ticker, "DATE") > last_date

\* C10: when a run resolved the watermark V, every record of the batch it fetched
\* has an ordering value strictly greater than V.
C10_FetchedAfterWatermark ==
  (loader = "stocks" /\ pc = "fetched" /\ last_date # None) =>
     \A i \in 1..Len(df.rows) : df.rows[i].date > last_date

\* C11: a call that ends in failure, whether the fetch raised, the validation
\* failed or a statement of the upsert raised, leaves every table as it was when the
\* call started, and so every ticker's watermark; rows that are only staged (the
\* upsert is under way) do not show in the watermark either.
C11_FailedRunKeepsWatermark ==
  (pc = "failed" \/ InMerge) =>
     /\ tables = before
     /\ \A t \in Tickers :
           /\ GetLastLoadedDate(tables, StockTable, t, "DATE")
                = GetLastLoadedDate(before, StockTable, t, "DATE")
           /\ GetLastLoadedDate(tables, NewsTable, t, "PUBLISHED_AT")
                = GetLastLoadedDate(before, NewsTable, t, "PUBLISHED_AT")

\* C11's case: the upsert failed after the batch was staged, over a table with rows
C11_Witness ==
  /\ pc = "failed"
  /\ error = "upsert"
  /\ call # NoCall
  /\ Len(df.rows) > 0
  /\ staging[call.staging_table].rows = BatchRows
  /\ Len(tables[call.target_table]) > 0

\* C12: the target table changes in one step only, the MERGE, and that step applies
\* the whole batch: every row the table held that a batch row matches is rewritten
\* from a matching batch row, every batch row that matches none is appended in full,
\* every other row and every other table is as before; a step into failure changes
\* nothing.
FullyReconciled(old, new, batch) ==
  LET upd == {Upper(c) : c \in Range(call.update_columns)} IN
  /\ Len(new) >= Len(old)
  /\ \A i \in 1..Len(old) :
        IF \E j \in 1..Len(batch) : KeyMatch(old[i], batch[j], call.match_keys)
        THEN \E j \in 1..Len(batch) :
                /\ KeyMatch(old[i], batch[j], call.match_keys)
                /\ \A c \in DOMAIN old[i] :
                      new[i][c] = IF c \in upd THEN batch[j][c] ELSE old[i][c]
        ELSE new[i] = old[i]
  /\ \A j \in 1..Len(batch) :
        (\A i \in 1..Len(old) : ~KeyMatch(old[i], batch[j], call.match_keys))
           => \E i \in (Len(old) + 1)..Len(new) : new[i] = batch[j]
  /\ \A i \in (Len(old) + 1)..Len(new) : \E j \in 1..Len(batch) : new[i] = batch[j]

C12_AtomicReconcile ==
  [][ tables' # tables =>
        /\ pc = "staging_written"
        /\ pc' = "done"
        /\ \A t \in TableNames \ {call.target_table} : tables'[t] = tables[t]
        /\ FullyReconciled(tables[call.target_table], tables'[call.target_table],
                           BatchRows) ]_vars

\* C12's case: one MERGE has rewritten a row the table held and appended another
C12_Witness ==
  /\ pc = "done"
  /\ Len(NewRows) > Len(OldRows)
  /\ \E i \in 1..Len(OldRows) : NewRows[i] # OldRows[i]

\* C14: a fetch that returns an empty batch ends the call as a success: the upsert
\* is not called and load reports True.
C14_EmptyFetchSucceeds ==
  (Returning /\ error = "" /\ Len(raw) = 0) => (pc = "done" /\ calls = 0)

\* C15: an exception raised in fetch, transform, validate, score or upsert never
\* leaves load: the call ends in "failed" (load returns False).
C15_ExceptionsCaught ==
  /\ pc # "raised"
  /\ error # "" => pc = "failed"

\* C15's case: a statement of the upsert raised and load returned False
C15_Witness ==
  /\ pc = "failed"
  /\ error = "upsert"
  /\ calls = 1

\* C19: every quality scorer returns a value in [0, 100], whatever the batch.
C19_ScoreInRange ==
  pc = "returned" => (0 <= score.num /\ score.num <= 100 * score.den)

\* C19's case: the extraction scorer on no MD&A and no Risk text, its largest deduction
C19_Witness ==
  /\ pc = "returned"
  /\ loader = "extraction"
  /\ df.rows[1].mda_words = 0
  /\ df.rows[1].risk_words = 0
  /\ score = Whole(30)

\* C20: the price score is 100 minus 20 if some row has high < low, minus 10 if some
\* row has open outside [low, high], minus 10 if some row has close outside
\* [low, high], minus 30 if some open, high, low or close is null, each once per
\* batch; a batch whose four price fields are all null, with no other defect, scores 70.
SomeRow(P(_)) == \E i \in 1..Len(df.rows) : P(df.rows[i])

C20_PriceScore ==
  (pc = "returned" /\ loader = "stocks") =>
     LET known(r, a, b) == r[a] # NaN /\ r[b] # NaN
         high_lt_low(r) == known(r, "high", "low") /\ r.high < r.low
         open_out(r) == \/ known(r, "open", "low") /\ r.open < r.low
                        \/ known(r, "open", "high") /\ r.open > r.high
         close_out(r) == \/ known(r, "close", "low") /\ r.close < r.low
                         \/ known(r, "close", "high") /\ r.close > r.high
         some_null(r) == NaN \in {r.open, r.high, r.low, r.close}
         all_null(r) == {r.open, r.high, r.low, r.close} = {NaN}
     IN  /\ score = Whole(100 - (IF SomeRow(high_lt_low) THEN 20 ELSE 0)
                              - (IF SomeRow(open_out) THEN 10 ELSE 0)
                              - (IF SomeRow(close_out) THEN 10 ELSE 0)
                              - (IF SomeRow(some_null) THEN 30 ELSE 0))
         /\ (Len(df.rows) > 0 /\ \A i \in 1..Len(df.rows) : all_null(df.rows[i]))
               => score = Whole(70)

\* C20's case: two rows with high < low and a null price in the batch: the 20 and
\* the 30 are each taken once
C20_Witness ==
  /\ pc = "returned"
  /\ loader = "stocks"
  /\ Len(df.rows) = 2
  /\ \A i \in 1..2 : df.rows[i].high = 1 /\ df.rows[i].low = 2
  /\ \A i \in 1..2 : df.rows[i].open = NaN /\ df.rows[i].close = NaN
  /\ score = Whole(50)

\* C16: whatever the loaders return, run_pipeline calls every enabled loader for every
\* ticker, in the order of the list and of the loaders, and puts one entry per ticker
\* in the buckets; a ticker whose loaders all fail does not stop the ones after it.
Processed == Len(pipeline.history)

EnabledOrder == SelectSeq(LoaderOrder, LAMBDA l : l \in pipeline.enabled)

C16_FailureIsolation ==
  pipeline.at \in {"loop", "returned"} =>
     /\ pipeline.idx = Processed + 1
     /\ \A i \in 1..Processed : pipeline.history[i].loaders = EnabledOrder
     /\ Len(pipeline.results.success) + Len(pipeline.results.partial)
          + Len(pipeline.results.failed) = Processed
     /\ pipeline.at = "returned" => Processed = Len(pipeline.tickers)

\* C16's case: three tickers, every loader of the second failed, the first and the
\* third were loaded in full
C16_Witness ==
  /\ pipeline.at = "returned"
  /\ Len(pipeline.tickers) = 3
  /\ pipeline.enabled = Loaders
  /\ Processed = 3
  /\ pipeline.history[1].succeeded = 4
  /\ pipeline.history[2].succeeded = 0
  /\ pipeline.history[3].succeeded = 4
  /\ pipeline.results.success = <<pipeline.tickers[1], pipeline.tickers[3]>>
  /\ pipeline.results.failed = <<pipeline.tickers[2]>>

\* C17: each processed ticker is in exactly one bucket: success when every call of
\* its loaders returned True, failed when none did, partial otherwise; each bucket
\* lists its tickers in the order of the ticker list.
ExpectedBucket(a) ==
  IF a.succeeded = Len(a.loaders) THEN "success"
  ELSE IF a.succeeded > 0 THEN "partial" ELSE "failed"

TickersIn(b) ==
  LET positions == SelectSeq([i \in 1..Processed |-> i],
                             LAMBDA i : ExpectedBucket(pipeline.history[i]) = b)
  IN  [k \in 1..Len(positions) |-> pipeline.tickers[positions[k]]]

C17_OutcomeClassification ==
  pipeline.at \in {"loop", "returned"} =>
     \A b \in {"success", "partial", "failed"} : pipeline.results[b] = TickersIn(b)

\* C17's case: a run that ended with a ticker in each of the three buckets
C17_Witness ==
  /\ pipeline.at = "returned"
  /\ Len(pipeline.results.success) = 1
  /\ Len(pipeline.results.partial) = 1
  /\ Len(pipeline.results.failed) = 1

\* C18: run_pipeline never raises: whatever fails, it returns the summary.
C18_NoExceptionEscapes == pipeline.at # "raised"

\* C13: two runs that upsert into one target table at the same time never see or
\* overwrite each other's staged batch: the staging table a run has written holds
\* its own batch until its MERGE, and the MERGE reads exactly that batch. The runs
\* are not serialized and give their staging tables the same name; the tables are
\* temporary, so each belongs to the session of its run.
C13_StagingIsolated ==
  concurrent.at = "running" =>
    \A r \in Sessions :
       LET run == concurrent.runs[r] IN
       /\ run.pc = "staging_written" =>
             LET key == StagingKey(r, run.call.staging_table)
             IN  key \in DOMAIN concurrent.temp /\ concurrent.temp[key] = OwnBatch(r)
       /\ run.pc = "done" => run.merged = OwnBatch(r)

\* C13's case: both runs have staged their batches, under one staging name, and
\* neither has merged yet
C13_Witness ==
  /\ concurrent.at = "running"
  /\ \A r \in Sessions : concurrent.runs[r].pc = "staging_written"
  /\ concurrent.runs["A"].call.staging_table = concurrent.runs["B"].call.staging_table
  /\ OwnBatch("A") # OwnBatch("B")

\* C13 as stated: the isolation holds, and it holds because the runs are serialized
\* per target table or because their staging names differ.
InMergeData(r) ==
  concurrent.runs[r].pc \in {"merge_data", "staging_created", "staging_written"}

C13_SerializedOrUniqueNames ==
  concurrent.at = "running" =>
    /\ C13_StagingIsolated
    /\ \/ ~(InMergeData("A") /\ InMergeData("B"))
       \/ concurrent.runs["A"].call.staging_table # concurrent.runs["B"].call.staging_table

\* C21: every scorer returns 0 on a degenerate input: an empty batch, or, for the
\* extraction scorer, empty section texts.
Degenerate ==
  IF loader = "extraction"
  THEN df.rows[1].mda_words = 0 /\ df.rows[1].risk_words = 0
  ELSE Len(df.rows) = 0

C21_DegenerateScoresZero == (pc = "returned" /\ Degenerate) => score = Whole(0)

\* C22: the score gates nothing. A scored batch goes to the upsert whatever its
\* score, and a call on a non-empty fetched batch in which no step raised ends in
\* failure only at the validation step, on a batch the validator rejects.
Raised == {"fetch", "transform", "score", "upsert"}

C22_ScoreIsNoGate ==
  [][ /\ pc = "scored" => (pc' = "merge_data" /\ calls' = calls + 1 /\ df' = df)
      /\ (pc' = "failed" /\ Len(raw) > 0 /\ error' \notin Raised) =>
            (pc = "transformed" /\ ~Validate(loader, df)) ]_vars

\* C22's case: a batch with a missing price passed validation, got the lowest score
\* a validated price batch can get, and was loaded with it
C22_Witness ==
  /\ pc = "done"
  /\ score = 70
  /\ Len(tables[StockTable]) = Len(raw)
  /\ \A i \in 1..Len(tables[StockTable]) : tables[StockTable][i]["DATA_QUALITY_SCORE"] = 70

\* C23: AAPL, an empty table, five consistent daily bars: validation passes, the score
\* is 100, and the first upsert inserts exactly five rows, each with
\* data_quality_score 100; the upsert of the identical fetch inserts none, updates
\* the five, and leaves five rows.
Matched(old, batch, match_keys) ==
  {i \in 1..Len(old) : \E j \in 1..Len(batch) : KeyMatch(old[i], batch[j], match_keys)}

C23_EndToEndExample ==
  /\ error # "validation"
  /\ pc \in {"scored", "merge_data", "staging_created", "staging_written", "done"} =>
        score = 100
  /\ pc = "done" =>
        /\ Len(NewRows) = 5
        /\ \A i \in 1..5 : /\ NewRows[i]["DATA_QUALITY_SCORE"] = 100
                           /\ NewRows[i]["TICKER"] = "AAPL"
                           /\ NewRows[i]["INGESTED_AT"] = clock
        /\ IF clock = 1
           THEN Len(NewRows) - Len(OldRows) = 5
           ELSE /\ Len(NewRows) - Len(OldRows) = 0
                /\ Cardinality(Matched(OldRows, BatchRows, call.match_keys)) = 5

\* C23's case: the second load of the identical five bars has ended
C23_Witness ==
  /\ pc = "done"
  /\ clock = 2
  /\ prev = [ticker |-> "AAPL", raw |-> raw, rows |-> 5]
  /\ Len(raw) = 5
  /\ Len(tables[StockTable]) = 5

\* C24: a ticker whose CIK get_cik does not find fails for the SEC source only:
\* nothing of it is merged into the SEC table, every enabled loader was still called
\* for it, it is partial when another loader succeeded and failed otherwise, and the
\* loop goes on to the tickers after it.
C24_UnknownEntity ==
  pipeline.at \in {"loop", "returned"} =>
     /\ pipeline.unknown \cap pipeline.sec_merges = {}
     /\ \A i \in pipeline.unknown :
           i <= Processed =>
              LET a == pipeline.history[i] IN
              /\ a.loaders = EnabledOrder
              /\ a.succeeded < Len(a.loaders)
              /\ ExpectedBucket(a) = IF a.succeeded > 0 THEN "partial" ELSE "failed"
     /\ \A b \in {"success", "partial", "failed"} :
           Len(pipeline.results[b]) = Len(TickersIn(b))
           /\ \A k \in 1..Len(TickersIn(b)) : pipeline.results[b][k] = TickersIn(b)[k]
     /\ pipeline.idx = Processed + 1
     /\ pipeline.at = "returned" => Processed = Len(pipeline.tickers)

\* C24's case: ZZZZ has no CIK; its three other loaders succeeded, so it is partial,
\* and AAPL after it was loaded in full, SEC filings included
C24_Witness ==
  /\ pipeline.at = "returned"
  /\ pipeline.tickers = <<"ZZZZ", "AAPL">>
  /\ pipeline.enabled = Loaders
  /\ pipeline.unknown = {1}
  /\ pipeline.history[1].succeeded = 3
  /\ pipeline.results.partial = <<"ZZZZ">>
  /\ pipeline.results.success = <<"AAPL">>
  /\ pipeline.sec_merges = {2}

\* C25: within one load call the steps come in the order fetch, transform, validate,
\* score, upsert, with an edge to failure from each; the upsert is invoked at most
\* once, on a batch that is transformed, valid and scored; the call ends in done or
\* failed and does nothing after that but return.
StepEdges ==
  { <<"idle", "fetched">>, <<"idle", "failed">>,
    <<"fetched", "transformed">>, <<"fetched", "failed">>,
    <<"transformed", "validated">>, <<"transformed", "failed">>,
    <<"validated", "scored">>, <<"validated", "failed">>,
    <<"scored", "merge_data">>,
    <<"merge_data", "staging_created">>, <<"merge_data", "failed">>,
    <<"staging_created", "staging_written">>, <<"staging_created", "failed">>,
    <<"staging_written", "done">>, <<"staging_written", "failed">>,
    <<"done", "idle">>, <<"failed", "idle">> }

C25_StepOrder ==
  [][ /\ <<pc, pc'>> \in StepEdges
      /\ calls' > calls => (pc = "scored" /\ pc' = "merge_data")
      /\ calls' <= 1
      /\ pc' = "merge_data" =>
            /\ {"ticker", "ingested_at", "data_quality_score"} \subseteq Range(df'.columns)
            /\ Validate(loader', df')
            /\ \A i \in 1..Len(df'.rows) : df'.rows[i].data_quality_score = score'
      /\ tables' # tables => (pc = "staging_written" /\ pc' = "done")
      /\ Returning => (pc' = "idle" /\ tables' = tables /\ staging' = staging) ]_vars

\* C25's case: a call went through the five steps and ended in done, after an
\* earlier call
C25_Witness ==
  /\ pc = "done"
  /\ calls = 1
  /\ clock = 2
  /\ Len(tables[StockTable]) > 0
  /\ tables # before

\* C26: from the staging write to the MERGE the staging table holds the rows of the
\* batch this merge_data call was given, one staged row per batch row with the
\* batch's cells, and nothing an earlier call of the session staged; a table just
\* created holds no row.
HoldsBatch(rows, d) ==
  /\ Len(rows) = Len(d.rows)
  /\ \A i \in 1..Len(rows) :
        \A c \in DOMAIN d.rows[i] : rows[i][Upper(c)] = d.rows[i][c]

C26_StagingIsCurrentBatch ==
  /\ pc = "staging_created" => staging[call.staging_table].rows = <<>>
  /\ pc = "staging_written" => HoldsBatch(staging[call.staging_table].rows, df)
  /\ pc = "done" => HoldsBatch(staging[call.staging_table].rows, df)

\* C26's case: the session staged and merged one ticker's batch, and now holds the
\* two-row batch of another ticker in the same staging table, about to be merged
C26_Witness ==
  /\ pc = "staging_written"
  /\ prev.ticker \notin {"", ticker}
  /\ prev.rows > 0
  /\ Len(df.rows) = 2
  /\ \A i \in 1..2 : staging[call.staging_table].rows[i]["TICKER"] = ticker

\* C27: the price validator accepts a batch exactly when every row has its four
\* prices >= 0, high >= low, low <= open <= high and low <= close <= high; so every
\* price row in the table satisfies these conditions.
Consistent(open, high, low, close) ==
  /\ NaN \notin {open, high, low, close}
  /\ open >= 0 /\ high >= 0 /\ low >= 0 /\ close >= 0
  /\ high >= low
  /\ low <= open /\ open <= high
  /\ low <= close /\ close <= high

C27_ValidatesConsistency ==
  /\ pc \in {"validated", "scored"} =>
        \A i \in 1..Len(df.rows) :
           Consistent(df.rows[i].open, df.rows[i].high, df.rows[i].low, df.rows[i].close)
  /\ (pc = "failed" /\ error = "validation") =>
        \E i \in 1..Len(df.rows) :
           ~Consistent(df.rows[i].open, df.rows[i].high, df.rows[i].low, df.rows[i].close)
  /\ \A i \in 1..Len(tables[StockTable]) :
        LET r == tables[StockTable][i]
        IN  Consistent(r["OPEN"], r["HIGH"], r["LOW"], r["CLOSE"])

\* C28: every record of every batch a loader passes to merge_data has a value in
\* each merge-key column: TICKER and DATE for prices, TICKER and FISCAL_QUARTER for
\* fundamentals, ARTICLE_ID for news, TICKER and ACCESSION_NUMBER for SEC filings.
KeysOf ==
  [ stocks |-> {"TICKER", "DATE"}, fundamentals |-> {"TICKER", "FISCAL_QUARTER"},
    news |-> {"ARTICLE_ID"}, sec |-> {"TICKER", "ACCESSION_NUMBER"} ]

C28_MergeKeysNotNull ==
  pc = "merge_data" =>
     /\ Range(call.match_keys) = KeysOf[loader]
     /\ \A i \in 1..Len(df.rows), k \in Range(call.match_keys) :
           /\ \E c \in DOMAIN df.rows[i] : Upper(c) = k
           /\ ~IsNull(k, CellOf(df.rows[i], k))

\* C28's case: the SEC source listed a filing with no accession number before one
\* that has it; the batch passed to merge_data holds the second only
C28_Witness ==
  /\ pc = "merge_data"
  /\ loader = "sec"
  /\ Len(raw) = 2
  /\ raw[1].form = "10-K" /\ raw[1].accessionNumber = NULL /\ raw[1].text # NaN
  /\ Len(df.rows) = 1
  /\ df.rows[1].accession_number = raw[2].accessionNumber

\* C29: a price batch that reaches the upsert carries data_quality_score 100 or 70 on
\* all its rows: validation has refused every batch the 20 and 10 point deductions
\* apply to, so only the 30 points for a missing price can be taken, and they are
\* taken exactly when a price is missing.
C29_LoadedScores ==
  (InMerge \/ pc = "done") =>
     LET missing == \E i \in 1..Len(raw) :
                       NaN \in {raw[i].Open, raw[i].High, raw[i].Low, raw[i].Close}
     IN  /\ score = IF missing THEN 70 ELSE 100
         /\ \A i \in 1..Len(df.rows) : CellOf(df.rows[i], "data_quality_score") = score
         /\ pc = "done" =>
               \A i \in 1..Len(tables[StockTable]) :
                  tables[StockTable][i]["DATA_QUALITY_SCORE"] \in {100, 70}

\* C29's case: a two-bar batch, one bar complete and one with its close missing, was
\* loaded with the score 70
C29_Witness ==
  /\ pc = "done"
  /\ Len(raw) = 2
  /\ NaN \notin {raw[1].Open, raw[1].High, raw[1].Low, raw[1].Close}
  /\ raw[2].Close = NaN
  /\ score = 70
  /\ Len(tables[StockTable]) = 2

\* C30: between runs of download_filings_for_ticker, every filing whose raw document
\* is in S3 has a row in the documents table with DOWNLOAD_STATUS 'downloaded' and
\* its S3_RAW_KEY set.
C30_S3ImpliesDownloadedRow ==
  download.at = "idle" =>
     \A f \in FilingIds :
        RawKey(f) \in download.s3 =>
           /\ download.docs[f].DOWNLOAD_STATUS = "downloaded"
           /\ download.docs[f].S3_RAW_KEY = RawKey(f)

====
